---- MODULE Spec2Model ----
(***************************************************************************)
(* Model of the cloudmetrics pipeline engine                               *)
(* (src/cloudmetrics_pipeline/process.py, scene_extraction.py,             *)
(* steps/tile.py): the immutable pipeline builder, scene extraction, the   *)
(* expansion of (steps x scenes) into luigi tasks, the existence-cached    *)
(* execution of these tasks by a pool of workers, and the merge of the     *)
(* final outputs.                                                          *)
(*                                                                         *)
(* File paths and identifiers are strings, built and taken apart as the    *)
(* code does with pathlib and str.join.  Array data is a record of the     *)
(* properties the code inspects (name, dtype, set of values, number of     *)
(* dimensions, tiling attributes) plus a provenance string that stands for *)
(* the values.  Field values are in tenths: 10 is 1.0, 5 is 0.5.           *)
(***************************************************************************)
EXTENDS Integers, Sequences, FiniteSets, TLC

VARIABLES
    source_files,   \* the sources given to find_scenes (fixed for a behaviour)
    steps,          \* CloudmetricPipeline._steps of the builder in hand
    fs,             \* the file system: path -> stored array
    pc,             \* "idle" | "running": position of execute()
    cur,            \* the execute() call in progress (arguments, frontier, outputs)
    status,         \* luigi scheduler: task -> status, for the build in progress
    workers,        \* the tasks the luigi worker processes are running
    started,        \* task -> number of times PipelineStep.run was entered in this build
    runs,           \* completed execute() calls, oldest first
    nodes,          \* PipelineStep objects constructed directly (identifier checks)
    ident,          \* node -> its identifier and output, as evaluated on construction
    lists,          \* the heap of Python lists that serve as _steps of builders
    builders,       \* CloudmetricPipeline objects: for each, the reference of its _steps
    calls,          \* the chaining calls made on builders, oldest first
    sx,             \* the make_scenes call that is followed source by source
    steprun,        \* a single PipelineStep.run on a given upstream artifact
    modaps          \* the download functions: the MODAPS orders, the Python process,
                    \* the calls, and the loops of the functions followed step by step

\* the variables of the builder, scene-extraction and single-step views
aux == <<lists, builders, calls, sx, steprun, modaps>>

vars == <<source_files, steps, fs, pc, cur, status, workers, started, runs,
          nodes, ident, lists, builders, calls, sx, steprun, modaps>>

----------------------------------------------------------------------------
(* Bounds of the model *)

NumScenes == 2
MaxSteps == 2
MaxRuns == 2
MaxWorkers == 2

----------------------------------------------------------------------------
(* Strings and paths (pathlib.Path on POSIX) *)

SCENE_PATH == "cloudmetrics"

Digit(d) == SubSeq("0123456789", d + 1, d + 1)

RECURSIVE IntStr(_)
IntStr(n) == IF n < 10 THEN Digit(n) ELSE IntStr(n \div 10) \o Digit(n % 10)

\* index of the last occurrence of the one-character string c in s, 0 if none
RECURSIVE LastIndexOf(_, _, _)
LastIndexOf(s, c, i) ==
    IF i = 0 THEN 0
    ELSE IF SubSeq(s, i, i) = c THEN i
    ELSE LastIndexOf(s, c, i - 1)

\* number of occurrences of the one-character string c in the first i of s
CountChar(s, c, i) == Cardinality({k \in 1..i : SubSeq(s, k, k) = c})

\* Path(p).name
PathName(p) ==
    LET k == LastIndexOf(p, "/", Len(p))
    IN  SubSeq(p, k + 1, Len(p))

\* str(Path(p).parent); the parent of a bare file name is "."
PathParent(p) ==
    LET k == LastIndexOf(p, "/", Len(p))
    IN  IF k = 0 THEN "." ELSE SubSeq(p, 1, k - 1)

\* Path(p).suffix: from the last dot of the name, unless the name starts with it
PathSuffix(p) ==
    LET n == PathName(p)
        k == LastIndexOf(n, ".", Len(n))
    IN  IF k <= 1 THEN "" ELSE SubSeq(n, k, Len(n))

\* Path(p).stem
PathStem(p) ==
    LET n == PathName(p)
        k == LastIndexOf(n, ".", Len(n))
    IN  IF k <= 1 THEN n ELSE SubSeq(n, 1, k - 1)

\* str(Path(d) / name): pathlib drops a leading "."
PathJoin(d, name) == IF d = "." THEN name ELSE d \o "/" \o name

\* number of directories above the file p
PathDepth(p) == IF PathParent(p) = "." THEN 0 ELSE CountChar(p, "/", Len(p)) + 1

----------------------------------------------------------------------------
(* Python values that occur as step parameters, and transform references *)

PyNone == [t |-> "none", s |-> "", n |-> 0]
PyInt(i) == [t |-> "int", s |-> "", n |-> i]
PyStr(x) == [t |-> "str", s |-> x, n |-> 0]

\* f"{v}"
Format(v) ==
    CASE v.t = "none" -> "None"
      [] v.t = "int" -> IntStr(v.n)
      [] OTHER -> v.s

\* a transform: a function object (its __name__ and what it computes), None,
\* or a string shorthand
NoFn == [t |-> "none", name |-> "", impl |-> ""]
Func(name, impl) == [t |-> "func", name |-> name, impl |-> impl]
StrFn(x) == [t |-> "str", name |-> "", impl |-> x]

\* a dict is the sequence of its (key, value) items in insertion order
DictHas(d, k) == \E i \in 1..Len(d) : d[i][1] = k
DictGet(d, k) == d[CHOOSE i \in 1..Len(d) : d[i][1] = k][2]
DictPop(d, k) == SelectSeq(d, LAMBDA kv : kv[1] # k)

\* sep.join(parts)
RECURSIVE Join(_, _)
Join(parts, sep) ==
    IF Len(parts) = 0 THEN ""
    ELSE IF Len(parts) = 1 THEN parts[1]
    ELSE parts[1] \o sep \o Join(Tail(parts), sep)

\* the value of an expression that may raise
Ok(v) == [ok |-> TRUE, v |-> v]
Raise(e) == [ok |-> FALSE, v |-> e]
RaiseMsg(e, msg) == [ok |-> FALSE, v |-> e, msg |-> msg]

----------------------------------------------------------------------------
(* luigi tasks: SourceFile and PipelineStep *)

SourceFile(filepath) == [cls |-> "SourceFile", filepath |-> filepath]

PipelineStep(kind, parent, fn, parameters, debug) ==
    [cls |-> "PipelineStep", kind |-> kind, parent |-> parent, fn |-> fn,
     parameters |-> parameters, debug |-> debug]

\* mutant: requires() names no task
Requires_None(t) == {}

\* PipelineStep.requires: the parent task (execute() only passes tasks)
Requires(t) == IF t.cls = "PipelineStep" THEN {t.parent} ELSE {}

\* mutant: the value under the kind key is read but the key is not popped
IdentifierParts_NoPop(t) ==
    LET popped == DictHas(t.parameters, t.kind)
        params == t.parameters
        p1 == <<t.kind>>
        p2 == IF popped THEN Append(p1, DictGet(t.parameters, t.kind).s) ELSE p1
        param_str == Join([i \in 1..Len(params) |->
                             params[i][1] \o "=" \o Format(params[i][2])], "__")
        p3 == IF Len(params) > 0 THEN Append(p2, param_str) ELSE p2
    IN  IF t.fn.t # "none" THEN Append(p3, t.fn.name) ELSE p3

\* mutant: the remaining parameters are left out of the identifier
IdentifierParts_NoParams(t) ==
    LET popped == DictHas(t.parameters, t.kind)
        p1 == <<t.kind>>
        p2 == IF popped THEN Append(p1, DictGet(t.parameters, t.kind).s) ELSE p1
    IN  IF t.fn.t # "none" THEN Append(p2, t.fn.name) ELSE p2

\* the segments of PipelineStep.identifier before the final join
IdentifierParts(t) ==
    LET popped == DictHas(t.parameters, t.kind)
        params == IF popped THEN DictPop(t.parameters, t.kind) ELSE t.parameters
        p1 == <<t.kind>>
        p2 == IF popped THEN Append(p1, DictGet(t.parameters, t.kind).s) ELSE p1
        param_str == Join([i \in 1..Len(params) |->
                             params[i][1] \o "=" \o Format(params[i][2])], "__")
        p3 == IF Len(params) > 0 THEN Append(p2, param_str) ELSE p2
    IN  IF t.fn.t # "none" THEN Append(p3, t.fn.name) ELSE p3

\* mutant: the transform enters the identifier as the function object
\* (what it computes), not by its __name__
Identifier_ByImpl(t) ==
    IF t.fn.t = "str" THEN Raise("AttributeError")
    ELSE IF DictHas(t.parameters, t.kind) /\ DictGet(t.parameters, t.kind).t # "str"
    THEN Raise("TypeError")
    ELSE Ok(Join(IdentifierParts([t EXCEPT !.fn.name = t.fn.impl]), "__"))

\* PipelineStep.identifier; a str transform has no __name__, and str.join
\* raises TypeError on a popped value that is not a str
Identifier(t) ==
    IF t.fn.t = "str" THEN Raise("AttributeError")
    ELSE IF DictHas(t.parameters, t.kind) /\ DictGet(t.parameters, t.kind).t # "str"
    THEN Raise("TypeError")
    ELSE Ok(Join(IdentifierParts(t), "__"))

\* the SourceFile at the root of a task's chain of parents
RECURSIVE RootOf(_)
RootOf(t) == IF t.cls = "SourceFile" THEN t ELSE RootOf(t.parent)

RECURSIVE Output(_)

\* mutant: the identifier directory is put under the scene directory, not
\* under the directory of the parent's output
Output_Flat(t) ==
    IF t.cls = "SourceFile"
    THEN IF PathSuffix(t.filepath) # ".nc"
         THEN Raise("NotImplementedError")
         ELSE Ok(t.filepath)
    ELSE LET po == Output(t.parent)
             id == Identifier(t)
             root == RootOf(t).filepath
         IN  IF ~po.ok THEN po
             ELSE IF ~id.ok THEN id
             ELSE Ok(PathJoin(PathJoin(PathParent(root), id.v), PathName(root)))

\* mutant: the output file is named after the identifier, not after the
\* parent's output file
Output_Renamed(t) ==
    IF t.cls = "SourceFile"
    THEN IF PathSuffix(t.filepath) # ".nc"
         THEN Raise("NotImplementedError")
         ELSE Ok(t.filepath)
    ELSE LET po == Output(t.parent)
             id == Identifier(t)
         IN  IF ~po.ok THEN po
             ELSE IF ~id.ok THEN id
             ELSE Ok(PathJoin(PathParent(po.v), id.v \o ".nc"))

\* SourceFile.output / PipelineStep.output: the path of the task's target
Output(t) ==
    IF t.cls = "SourceFile"
    THEN IF PathSuffix(t.filepath) # ".nc"
         THEN Raise("NotImplementedError")
         ELSE Ok(t.filepath)
    ELSE LET po == Output(t.parent)
             id == Identifier(t)
         IN  IF ~po.ok THEN po
             ELSE IF ~id.ok THEN id
             ELSE Ok(PathJoin(PathJoin(PathParent(po.v), id.v), PathName(po.v)))

\* PipelineStep.scene_id
SceneIdOf(t) ==
    LET po == Output(t.parent)
    IN  IF po.ok THEN Ok(PathStem(po.v)) ELSE po

----------------------------------------------------------------------------
(* Stored arrays and the step functions *)

UNNAMED == "__xarray_dataarray_variable__"

\* an array file: the name of its variable, whether it holds a single
\* variable, its dtype, the set of its values (in tenths), its shape, whether
\* it carries the x_dim / y_dim attributes of a tiling, and its provenance
Array(name, dtype, vals, shape, tiled, data) ==
    [name |-> name, single |-> TRUE, dtype |-> dtype, vals |-> vals,
     shape |-> shape, tiled |-> tiled, data |-> data]

SetMin(S) == CHOOSE x \in S : \A y \in S : x <= y
SetMax(S) == CHOOSE x \in S : \A y \in S : x >= y

\* da.astype(bool)
AsBool(vals) == {IF v = 0 THEN 0 ELSE 10 : v \in vals}

\* "k=v,k=v" of a parameter dict, for provenance
ParamStr(d) == Join([i \in 1..Len(d) |-> d[i][1] \o "=" \o Format(d[i][2])], ",")

\* the transform a caller passes to mask(): "threshold" is what
\* masks.rgb_greyscale_mask computes; it selects along dim_2, so it raises on
\* an array that has no third dimension
ApplyFn(impl, in, parameters) ==
    IF Len(in.shape) < 3
    THEN Raise("ValueError")
    ELSE Ok(Array(UNNAMED, "bool", {0, 10}, SubSeq(in.shape, 1, 2), FALSE,
                  impl \o "[" \o ParamStr(parameters) \o "](" \o in.data \o ")"))

\* number of windows of size ws along an axis of length L, starting at
\* offset and stepping by stride: sliding_window_view(...)[offset::stride]
NumWindows(L, ws, offset, stride) ==
    IF offset > L - ws THEN 0 ELSE ((L - ws - offset) \div stride) + 1

\* window_stride after "if window_stride is None"
WindowStrideOf(window_size, ws_arg) ==
    IF ws_arg.t = "none" THEN window_size ELSE ws_arg.n

\* mutant: stride_center without the comparison and without the halving,
\* any other value taken as no offset
TileOffset_Unchecked(window_size, window_stride, wo_arg) ==
    IF wo_arg = PyStr("stride_center")
    THEN Ok(IF window_stride >= window_size THEN window_stride - window_size ELSE 0)
    ELSE Ok(0)

\* the offset of the first window, or the exception raised
TileOffset(window_size, window_stride, wo_arg) ==
    IF wo_arg = PyStr("stride_center")
    THEN IF window_stride >= window_size
         THEN Ok((window_stride - window_size) \div 2)
         ELSE Raise("Exception")
    ELSE IF wo_arg.t = "none" THEN Ok(0)
    ELSE Raise("NotImplementedError")

\* len(q[start::step]) for a sequence of n elements
SliceLen(n, start, step) ==
    IF start >= n THEN 0 ELSE ((n - start - 1) \div step) + 1

\* mutant: the windows are taken from the start of the axis
StridedStarts_NoOffset(L, window_size, offset, stride) ==
    [k \in 1..SliceLen(L - window_size + 1, 0, stride) |-> (k - 1) * stride]

\* sliding_window_view along an axis of length L gives the L - ws + 1
\* windows that start at 0, 1, ..; [offset::stride] keeps the windows
\* number offset, offset + stride, ..: their (0-based) starts, in order
StridedStarts(L, window_size, offset, stride) ==
    [k \in 1..SliceLen(L - window_size + 1, offset, stride) |->
        offset + (k - 1) * stride]

\* _extract_coord_values: the windows of the coordinate, strided, and of
\* each the first element
ExtractCoordValues(da_coord, window_size, offset, stride) ==
    LET view == [a \in 1..(Len(da_coord) - window_size + 1) |->
                    SubSeq(da_coord, a, a + window_size - 1)]
        starts == StridedStarts(Len(da_coord), window_size, offset, stride)
    IN  [k \in 1..Len(starts) |-> view[starts[k] + 1][1]]

\* the 4-D array of the windows of a field whose cells are known: window
\* (k, l) holds the cells (xs[k] + i, ys[l] + j)
Windows(values, xs, ys, window_size) ==
    [w \in (1..Len(xs)) \X (1..Len(ys)) |->
        [c \in (0..(window_size - 1)) \X (0..(window_size - 1)) |->
            values[<<xs[w[1]] + c[1], ys[w[2]] + c[2]>>]]]

\* steps/tile.py get_sliding_window_view_strided(da, **parameters); for a
\* field whose cells and coordinates are known (values, xc, yc) the result
\* carries the windows and the coordinates of the two stride axes
GetSlidingWindowViewStrided(da, parameters) ==
    LET window_size == DictGet(parameters, "window_size").n
        ws_arg == IF DictHas(parameters, "window_stride")
                  THEN DictGet(parameters, "window_stride") ELSE PyNone
        wo_arg == IF DictHas(parameters, "window_offset")
                  THEN DictGet(parameters, "window_offset") ELSE PyNone
        window_stride == WindowStrideOf(window_size, ws_arg)
        offset == TileOffset(window_size, window_stride, wo_arg)
    IN  IF Len(da.shape) # 2 THEN Raise("NotImplementedError")
        ELSE IF ~offset.ok THEN offset
        ELSE IF window_size > da.shape[1] \/ window_size > da.shape[2]
        THEN Raise("ValueError")
        ELSE LET da_windowed ==
                     Array(UNNAMED, da.dtype, da.vals,
                           <<NumWindows(da.shape[1], window_size, offset.v, window_stride),
                             NumWindows(da.shape[2], window_size, offset.v, window_stride),
                             window_size, window_size>>,
                           TRUE,
                           "tile[" \o ParamStr(parameters) \o "](" \o da.data \o ")")
                 xs == StridedStarts(da.shape[1], window_size, offset.v, window_stride)
                 ys == StridedStarts(da.shape[2], window_size, offset.v, window_stride)
             IN  IF "values" \notin DOMAIN da THEN Ok(da_windowed)
                 ELSE Ok(da_windowed @@
                         [windows |-> Windows(da.values, xs, ys, window_size),
                          x_stride |-> ExtractCoordValues(da.xc, window_size,
                                                          offset.v, window_stride),
                          y_stride |-> ExtractCoordValues(da.yc, window_size,
                                                          offset.v, window_stride)])

\* fn_metric(values) of the cloudmetrics package, uninterpreted: the metric
\* and the cells it was given
FnMetric(metric, values) == [metric |-> metric, of |-> values]

\* the (x_stride, y_stride) positions of a tiled field in the order of the
\* stacked axis n
StackedPositions(shape) ==
    [m \in 1..(shape[1] * shape[2]) |->
        <<((m - 1) \div shape[2]) + 1, ((m - 1) % shape[2]) + 1>>]

\* mutant: the metric is computed once, on all the windows together
MetricResults_Whole(da_cloudmask, metric) ==
    [calls |-> <<IF da_cloudmask.tiled THEN da_cloudmask.windows
                 ELSE da_cloudmask.values>>,
     results |-> IF da_cloudmask.tiled
                 THEN FnMetric(metric, da_cloudmask.windows)
                 ELSE FnMetric(metric, da_cloudmask.values)]

\* the calls of fn_metric and what is assembled from them, for a field whose
\* cells are known: one call per group of the stacked axis when the field
\* has the attributes x_dim and y_dim, else one call on the field
MetricResults(da_cloudmask, metric) ==
    IF da_cloudmask.tiled
    THEN LET n == StackedPositions(da_cloudmask.shape)
         IN  [calls |-> [m \in 1..Len(n) |-> da_cloudmask.windows[n[m]]],
              results |-> [w \in {n[m] : m \in 1..Len(n)} |->
                              FnMetric(metric, da_cloudmask.windows[w])]]
    ELSE [calls |-> <<da_cloudmask.values>>,
          results |-> FnMetric(metric, da_cloudmask.values)]

\* process.py _compute_metric_on_cloudmask
ComputeMetricOnCloudmask(da_cloudmask, metric) ==
    LET da == Array(metric, "float", {3},
                    IF da_cloudmask.tiled THEN SubSeq(da_cloudmask.shape, 1, 2) ELSE <<>>,
                    FALSE,
                    metric \o "(" \o da_cloudmask.data \o ")")
    IN  IF da_cloudmask.tiled /\ "windows" \in DOMAIN da_cloudmask
        THEN da @@ MetricResults(da_cloudmask, metric)
                @@ [x_stride |-> da_cloudmask.x_stride,
                    y_stride |-> da_cloudmask.y_stride]
        ELSE IF ~da_cloudmask.tiled /\ "values" \in DOMAIN da_cloudmask
        THEN da @@ MetricResults(da_cloudmask, metric)
        ELSE da

\* a file with several variables (or none): XArrayTarget.open gives the
\* Dataset, not a DataArray
Dataset(data_vars) ==
    [name |-> "", single |-> FALSE, dtype |-> "", vals |-> {}, shape |-> <<>>,
     tiled |-> FALSE, data |-> "dataset", data_vars |-> data_vars]

\* str(v.item()) of a value of an array of the given dtype
FormatItem(v, dtype) ==
    IF dtype = "float" THEN IntStr(v \div 10) \o "." \o IntStr(v % 10)
    ELSE IntStr(v \div 10)

\* the message of the exception for a field that is not a mask
NotAMaskMessage(da) ==
    "The field you're trying use as a mask appears"
      \o " to not only contain 0.0 and 1.0 values"
      \o " " \o da.name \o "=[" \o FormatItem(SetMin(da.vals), da.dtype)
      \o ":" \o FormatItem(SetMax(da.vals), da.dtype) \o "]"
      \o " Maybe you forgot to apply a mask method?"

\* the message of the exception for a Dataset: the string in the source is
\* not an f-string, its braces are part of the text (the backquotes around
\* .mask are left out here)
NotASingleFieldMessage ==
    "Before computing metrics you need to add a .mask operation"
      \o " to the pipeline. Currently you are trying to compute metrics"
      \o " on a dataset with the following variables: {', '.join(ds_or_da.data_vars.keys())}"

\* da.astype(bool): the attributes are kept; cells that are known are cast
\* one by one
AstypeBool(da) ==
    LET cast(f) == [c \in DOMAIN f |-> IF f[c] = 0 THEN 0 ELSE 10]
        base == [da EXCEPT !.dtype = "bool", !.vals = AsBool(da.vals)]
    IN  IF "values" \in DOMAIN da THEN [base EXCEPT !.values = cast(@)]
        ELSE IF "windows" \in DOMAIN da
        THEN [base EXCEPT !.windows = [w \in DOMAIN @ |-> cast(@[w])]]
        ELSE base

\* mutant: any single field is cast to bool, whatever its values
MetricCloudmask_NoCheck(ds_or_da) ==
    IF ~ds_or_da.single
    THEN RaiseMsg("Exception", NotASingleFieldMessage)
    ELSE Ok(AstypeBool(ds_or_da))

\* the metric branch of _run up to da_cloudmask: the boolean field the
\* metric is computed on, or the exception raised
MetricCloudmask(ds_or_da) ==
    IF ~ds_or_da.single
    THEN RaiseMsg("Exception", NotASingleFieldMessage)
    ELSE IF ds_or_da.dtype # "bool"
            /\ (SetMin(ds_or_da.vals) # 0 \/ SetMax(ds_or_da.vals) # 10)
    THEN RaiseMsg("Exception", NotAMaskMessage(ds_or_da))
    ELSE Ok(AstypeBool(ds_or_da))

\* PipelineStep._run up to the array to be written: Ok(array) or the error
\* raised; inp is self.input(), the output of the parent task
StepFunction(t, inp, files) ==
        IF ~inp.ok THEN inp
        ELSE IF inp.v \notin DOMAIN files THEN Raise("FileNotFoundError")
        ELSE
        LET ds_or_da == files[inp.v]
        IN  CASE t.kind = "mask" ->
                   IF t.fn.t = "str" THEN Raise("NotImplementedError")
                   ELSE IF t.fn.t = "none" THEN Raise("TypeError")
                   ELSE LET r == ApplyFn(t.fn.impl, ds_or_da, t.parameters)
                        IN  IF r.ok THEN Ok([r.v EXCEPT !.name = "mask"]) ELSE r
              [] t.kind = "metric" ->
                   LET da_cloudmask == MetricCloudmask(ds_or_da)
                   IN  IF ~da_cloudmask.ok THEN da_cloudmask
                       ELSE Ok(ComputeMetricOnCloudmask(
                                   da_cloudmask.v, DictGet(t.parameters, "metric").s))
              [] t.kind = "tile" -> GetSlidingWindowViewStrided(ds_or_da, t.parameters)
              [] OTHER -> Raise("NotImplementedError")

----------------------------------------------------------------------------
(* Scene extraction: scene_extraction.py *)

IMAGE_SUFFIXES == {".png", ".jpg", ".jpeg"}

\* what skimage.io.imread gives for a source image: an RGB array; the first
\* image holds only the values 0 and 1, the others do not
ReadImage(filepath) ==
    Array(UNNAMED, "int8",
          IF PathStem(filepath) = "s1" THEN {0, 10} ELSE {0, 50},
          <<4, 4, 3>>, FALSE, "img(" \o filepath \o ")")

\* _make_image_scene: the scene id, the scene file and the array written to it
MakeImageScene(filepath) ==
    LET scene_id == PathStem(filepath)
    IN  [scene_id |-> scene_id,
         filepath_scene |-> PathJoin(PathJoin(PathParent(filepath), SCENE_PATH),
                                     scene_id \o ".nc"),
         da |-> ReadImage(filepath)]

\* make_scenes, from the i-th source on: scenes is the NoReplaceDict so far
\* (scene id, path), files the file system so far
RECURSIVE MakeScenesFrom(_, _, _, _)
MakeScenesFrom(sources, i, scenes, files) ==
    IF i > Len(sources) THEN [ok |-> TRUE, scenes |-> scenes, files |-> files]
    ELSE IF PathSuffix(sources[i]) \in IMAGE_SUFFIXES
    THEN LET sc == MakeImageScene(sources[i])
             written == [q \in DOMAIN files \cup {sc.filepath_scene} |->
                            IF q = sc.filepath_scene THEN sc.da ELSE files[q]]
         IN  IF DictHas(scenes, sc.scene_id)
             THEN [ok |-> FALSE, scenes |-> scenes, files |-> written]
             ELSE MakeScenesFrom(sources, i + 1,
                                 Append(scenes, <<sc.scene_id, sc.filepath_scene>>),
                                 written)
    ELSE [ok |-> FALSE, scenes |-> scenes, files |-> files]

MakeScenes(sources, files) == MakeScenesFrom(sources, 1, <<>>, files)

----------------------------------------------------------------------------
(* Graph expansion: CloudmetricPipeline.execute, the loop over the steps *)

AVAILABLE_METRICS == {"fractal_dimension", "iorg"}

\* mutant: a compute_metrics step builds one node per parent, for its first
\* metric name only
TasksFor_OneMetric(step, parent_task, debug) ==
    IF step.kind = "metrics"
    THEN <<PipelineStep("metric", parent_task, NoFn,
                        <<<<"metric", PyStr(step.metrics[1])>>>>, debug)>>
    ELSE <<PipelineStep(step.kind, parent_task, step.fn, step.parameters, debug)>>

\* the tasks one step adds for one parent task
TasksFor(step, parent_task, debug) ==
    IF step.kind = "metrics"
    THEN [i \in 1..Len(step.metrics) |->
            PipelineStep("metric", parent_task, NoFn,
                         <<<<"metric", PyStr(step.metrics[i])>>>>, debug)]
    ELSE <<PipelineStep(step.kind, parent_task, step.fn, step.parameters, debug)>>

RECURSIVE TasksForAll(_, _, _, _)
TasksForAll(step, parent_tasks, i, debug) ==
    IF i > Len(parent_tasks) THEN <<>>
    ELSE TasksFor(step, parent_tasks[i], debug)
           \o TasksForAll(step, parent_tasks, i + 1, debug)

\* the frontier after the steps i.. are applied to parent_tasks
RECURSIVE BuildFrontier(_, _, _, _)
BuildFrontier(stepseq, i, parent_tasks, debug) ==
    IF i > Len(stepseq) THEN parent_tasks
    ELSE BuildFrontier(stepseq, i + 1,
                       TasksForAll(stepseq[i], parent_tasks, 1, debug), debug)

SeqRange(q) == {q[i] : i \in 1..Len(q)}

----------------------------------------------------------------------------
(* luigi.build: scheduling (Worker.add) *)

\* mutant: the existence of the output is not looked at
Complete_Never(t, files) == FALSE

\* Task.complete(): the output exists; output() raising makes the check fail
Complete(t, files) == Output(t).ok /\ Output(t).v \in DOMAIN files

\* the tasks Worker.add visits from the tasks in S: the requirements of a
\* task are visited only if the task is not complete
RECURSIVE Visited(_, _)
Visited(S, files) ==
    LET more == UNION {Requires(t) : t \in {u \in S : Output(u).ok /\ ~Complete(u, files)}}
    IN  IF more \subseteq S THEN S ELSE Visited(S \cup more, files)

\* mutant: a task whose output exists is scheduled to run all the same
ScheduleStatus_NoCache(t, files) ==
    IF ~Output(t).ok THEN "UNKNOWN" ELSE "PENDING"

\* the status Worker.add reports for a task it visits
ScheduleStatus(t, files) ==
    IF ~Output(t).ok THEN "UNKNOWN"
    ELSE IF Complete(t, files) THEN "DONE"
    ELSE "PENDING"

\* the scheduler's view after every task of the frontier was added
Schedule(tasks, files) ==
    [t \in Visited(SeqRange(tasks), files) |-> ScheduleStatus(t, files)]

----------------------------------------------------------------------------
(* The Merger: CloudmetricPipeline._merge_outputs *)

\* the distinct names of das in order of first appearance (dict insertion order)
RECURSIVE NamesInOrder(_, _)
NamesInOrder(das, seen) ==
    IF Len(das) = 0 THEN seen
    ELSE NamesInOrder(Tail(das),
                      IF Head(das).name \in SeqRange(seen) THEN seen
                      ELSE Append(seen, Head(das).name))

NoResult == [single |-> FALSE, vars |-> <<>>]

\* mutant: the outputs are concatenated without being grouped by name
MergeOutputs_Ungrouped(outputs, files) ==
    IF \E i \in 1..Len(outputs) : outputs[i] \notin DOMAIN files
    THEN Raise("FileNotFoundError")
    ELSE IF Len(outputs) = 0 THEN Raise("ValueError")
    ELSE LET das == [i \in 1..Len(outputs) |-> files[outputs[i]]]
         IN  Ok([single |-> TRUE,
                 vars |-> << [name |-> das[1].name, entries |-> das] >>])

\* the merged result: one variable per name, each the concatenation along
\* scene_id of the outputs of that name; unwrapped when there is one variable
MergeOutputs(outputs, files) ==
    IF \E i \in 1..Len(outputs) : outputs[i] \notin DOMAIN files
    THEN Raise("FileNotFoundError")
    ELSE IF Len(outputs) = 0 THEN Raise("ValueError")
    ELSE LET das == [i \in 1..Len(outputs) |-> files[outputs[i]]]
             names == NamesInOrder(das, <<>>)
             concat(name) == [name |-> name,
                              entries |-> SelectSeq(das, LAMBDA da : da.name = name)]
             ds_merged == [i \in 1..Len(names) |-> concat(names[i])]
         IN  Ok([single |-> Len(ds_merged) = 1, vars |-> ds_merged])

----------------------------------------------------------------------------
(* Inputs of the builder operations and of execute() *)

MaskFns == {Func("rgb_greyscale_mask", "threshold")}
MaskKwargs == {<<>>}
WindowSizes == {PyInt(2)}
WindowStrides == {PyNone}
WindowOffsets == {PyStr("stride_center")}
MetricLists == {<<"iorg", "fractal_dimension">>, <<"iorg", "iorg">>}
SourceDirs == {".", "data"}

SourcesIn(dir) == [i \in 1..NumScenes |-> PathJoin(dir, "s" \o IntStr(i) \o ".png")]

----------------------------------------------------------------------------
(* State *)

Idle == [parallel_tasks |-> 0,
         fs0 |-> <<>>, fs1 |-> <<>>, tasks |-> <<>>, sched |-> <<>>, out |-> <<>>]

\* no make_scenes call is being followed
NoExtraction == [pc |-> "idle"]

\* no single step is being run
NoStep == [pc |-> "idle"]

\* no MODAPS download is being followed
NoModaps == [pc |-> "idle"]

Init ==
    /\ source_files \in {SourcesIn(d) : d \in SourceDirs}
    /\ steps = <<>>
    /\ fs = <<>>
    /\ pc = "idle"
    /\ cur = Idle
    /\ status = <<>>
    /\ workers = {}
    /\ started = <<>>
    /\ runs = <<>>
    /\ nodes = {}
    /\ ident = <<>>
    /\ lists = << <<>> >>
    /\ builders = <<1>>
    /\ calls = <<>>
    /\ modaps = NoModaps
    /\ sx = NoExtraction
    /\ steprun = NoStep

CanCall == pc = "idle" /\ Len(runs) < MaxRuns

\* CloudmetricPipeline._add_step
AddStep(stepseq, step) == stepseq \o <<step>>

\* CloudmetricPipeline.mask
Mask ==
    /\ CanCall
    /\ Len(steps) < MaxSteps
    /\ \E fn \in MaskFns, kwargs \in MaskKwargs :
          steps' = AddStep(steps, [kind |-> "mask", fn |-> fn,
                                   parameters |-> kwargs, metrics |-> <<>>])
    /\ UNCHANGED <<aux, nodes, ident, source_files, fs, pc, cur, status, workers, started, runs>>

\* CloudmetricPipeline.tile
Tile ==
    /\ CanCall
    /\ Len(steps) < MaxSteps
    /\ \E window_size \in WindowSizes, window_stride \in WindowStrides,
          window_offset \in WindowOffsets :
          steps' = AddStep(steps,
                      [kind |-> "tile", fn |-> NoFn,
                       parameters |-> << <<"window_size", window_size>>,
                                         <<"window_stride", window_stride>>,
                                         <<"window_offset", window_offset>> >>,
                       metrics |-> <<>>])
    /\ UNCHANGED <<aux, nodes, ident, source_files, fs, pc, cur, status, workers, started, runs>>

\* CloudmetricPipeline.compute_metrics; the step's parameters dict
\* {metrics: [...]} is the field metrics
ComputeMetrics ==
    /\ CanCall
    /\ Len(steps) < MaxSteps
    /\ \E metrics \in MetricLists :
          IF \E i \in 1..Len(metrics) : metrics[i] \notin AVAILABLE_METRICS
          THEN UNCHANGED steps
          ELSE steps' = AddStep(steps, [kind |-> "metrics", fn |-> NoFn,
                                        parameters |-> <<>>, metrics |-> metrics])
    /\ UNCHANGED <<aux, nodes, ident, source_files, fs, pc, cur, status, workers, started, runs>>

----------------------------------------------------------------------------
(* execute() *)

IsUnder(p, dir) == Len(p) > Len(dir) /\ SubSeq(p, 1, Len(dir) + 1) = dir \o "/"

\* mutant: only the scene files and the outputs of the first step are removed
Clean_Shallow(clean, files) ==
    IF clean /\ \E q \in DOMAIN files : IsUnder(q, SCENE_PATH)
    THEN [q \in {r \in DOMAIN files :
                    /\ PathParent(r) # SCENE_PATH
                    /\ PathParent(PathParent(r)) # SCENE_PATH} |-> files[q]]
    ELSE files

\* shutil.rmtree(SCENE_PATH) when clean and Path(SCENE_PATH) exists: the
\* path is relative to the working directory
Clean(clean, files) ==
    IF clean /\ \E q \in DOMAIN files : IsUnder(q, SCENE_PATH)
    THEN [q \in {r \in DOMAIN files : ~IsUnder(r, SCENE_PATH)} |-> files[q]]
    ELSE files

Write(files, path, da) ==
    [q \in DOMAIN files \cup {path} |-> IF q = path THEN da ELSE files[q]]

\* what is kept of a finished execute() call: its steps and workers, the file system
\* before extraction (fs0), at scheduling (fs1) and at the end (fs_end), the
\* frontier, the scheduler's first and final view, how it ended, whether
\* _merge_outputs was called, and how often each task's run() was entered
RunRecord(c, outcome, error, merged, result, files, final, ran) ==
    [steps |-> steps, parallel_tasks |-> c.parallel_tasks, fs0 |-> c.fs0, fs1 |-> c.fs1, tasks |-> c.tasks,
     sched |-> c.sched, final |-> final, outcome |-> outcome, error |-> error,
     merged |-> merged, result |-> result, started |-> ran, fs_end |-> files]

\* mutant: an extraction without scenes is not refused
NoScenes_Never(scenes) == FALSE

\* len(scenes) == 0
NoScenes(scenes) == Len(scenes) = 0

\* mutant: debugging is not refused with several workers
DebugRefused_Never(debug, parallel_tasks) == FALSE

\* debug and parallel_tasks != 1
DebugRefused(debug, parallel_tasks) == debug /\ parallel_tasks # 1

\* execute(parallel_tasks, debug, clean) up to and including the scheduling
\* of the frontier by luigi.build (Worker.add of every task)
ExecuteCall(parallel_tasks, debug, clean) ==
          LET fs0 == Clean(clean, fs)
              ms == MakeScenes(source_files, fs0)
              c0 == [parallel_tasks |-> parallel_tasks, fs0 |-> fs0, fs1 |-> ms.files, tasks |-> <<>>,
                     sched |-> <<>>, out |-> <<>>]
              raised(e) ==
                  /\ runs' = Append(runs, RunRecord(c0, "raised", e, FALSE, NoResult, ms.files, <<>>, <<>>))
                  /\ UNCHANGED <<pc, cur, status, workers, started>>
              parent_tasks == [i \in 1..Len(ms.scenes) |-> SourceFile(ms.scenes[i][2])]
              tasks == BuildFrontier(steps, 1, parent_tasks, debug)
              sched == Schedule(tasks, ms.files)
          IN  /\ fs' = ms.files
              /\ IF ~ms.ok THEN raised("make_scenes")
                 ELSE IF NoScenes(ms.scenes) THEN raised("No scenes found")
                 ELSE IF DebugRefused(debug, parallel_tasks) THEN raised("Debugging")
                 ELSE /\ pc' = "running"
                      /\ cur' = [c0 EXCEPT !.tasks = tasks, !.sched = sched,
                                            !.out = [t \in DOMAIN sched |-> Output(t)]]
                      /\ status' = sched
                      /\ workers' = {}
                      /\ started' = [t \in DOMAIN sched |-> 0]
                      /\ UNCHANGED runs

Execute ==
    /\ CanCall
    /\ \E parallel_tasks \in 1..MaxWorkers, debug \in BOOLEAN, clean \in BOOLEAN :
          ExecuteCall(parallel_tasks, debug, clean)
    /\ UNCHANGED <<aux, nodes, ident, source_files, steps>>

\* mutant: a failed task is handed out again
Runnable_Retry(t) ==
    /\ status[t] \in {"PENDING", "FAILED"}
    /\ \A d \in Requires(t) : status[d] = "DONE"

\* a task the scheduler can hand to a worker: pending, every requirement done
Runnable(t) ==
    /\ status[t] = "PENDING"
    /\ \A d \in Requires(t) : status[d] = "DONE"

\* t.output(), as evaluated when the build was scheduled
OutOf(c, t) == IF t \in DOMAIN c.out THEN c.out[t] ELSE Output(t)

\* a free worker takes a runnable task (TaskProcess.run): it fails at once
\* if a requirement is not complete; a SourceFile has no run() of its own; a
\* PipelineStep enters run()
StartTask(t) ==
    /\ pc = "running"
    /\ Cardinality(workers) < cur.parallel_tasks
    /\ Runnable(t)
    /\ IF \E d \in Requires(t) : ~(OutOf(cur, d).ok /\ OutOf(cur, d).v \in DOMAIN fs)
       THEN /\ status' = [status EXCEPT ![t] = "FAILED"]
            /\ UNCHANGED <<workers, started>>
       ELSE IF t.cls = "SourceFile"
       THEN /\ status' = [status EXCEPT ![t] = "DONE"]
            /\ UNCHANGED <<workers, started>>
       ELSE /\ status' = [status EXCEPT ![t] = "RUNNING"]
            /\ workers' = workers \cup {t}
            /\ started' = [started EXCEPT ![t] = @ + 1]
    /\ UNCHANGED <<aux, nodes, ident, source_files, steps, fs, pc, cur, runs>>

\* mutant: run() raises when another worker is inside run() at that moment
RunOutcome_Exclusive(t) ==
    IF Cardinality(workers) > 1
    THEN Raise("OSError")
    ELSE StepFunction(t, OutOf(cur, t.parent), fs)

\* what run() of t comes to in the worker process that executes it
RunOutcome(t) == StepFunction(t, OutOf(cur, t.parent), fs)

\* mutant: the output file is created before the step function is applied
\* and stays, empty, when the function raises
FinishTask_FileFirst(t) ==
    /\ pc = "running"
    /\ t \in workers
    /\ LET r == RunOutcome(t)
       IN  IF r.ok
           THEN /\ fs' = Write(fs, OutOf(cur, t).v, r.v)
                /\ status' = [status EXCEPT ![t] = "DONE"]
           ELSE /\ fs' = Write(fs, OutOf(cur, t).v, Dataset({}))
                /\ status' = [status EXCEPT ![t] = "FAILED"]
    /\ workers' = workers \ {t}
    /\ UNCHANGED <<aux, nodes, ident, source_files, steps, pc, cur, started, runs>>

\* PipelineStep.run ends: the output is written, or the step function raised
FinishTask(t) ==
    /\ pc = "running"
    /\ t \in workers
    /\ LET r == RunOutcome(t)
       IN  IF r.ok
           THEN /\ fs' = Write(fs, OutOf(cur, t).v, r.v)
                /\ status' = [status EXCEPT ![t] = "DONE"]
           ELSE /\ status' = [status EXCEPT ![t] = "FAILED"]
                /\ UNCHANGED fs
    /\ workers' = workers \ {t}
    /\ UNCHANGED <<aux, nodes, ident, source_files, steps, pc, cur, started, runs>>

\* mutant: the worker stays until every task is done (keep_alive)
WorkerExits_KeepAlive == workers = {} /\ \A t \in DOMAIN status : status[t] = "DONE"

\* the luigi worker leaves its loop: no task is running and the scheduler
\* has no task to hand out (keep_alive is off)
WorkerExits == workers = {} /\ \A t \in DOMAIN status : ~Runnable(t)

\* mutant: the value of luigi.build is not looked at
BuildSucceeded_Always(st) == TRUE

\* the value luigi.build returns: every task was scheduled and none failed
BuildSucceeded(st) == \A t \in DOMAIN st : st[t] \notin {"FAILED", "UNKNOWN"}

\* [t.output() for t in tasks]
Outputs(tasks, out) == [i \in 1..Len(tasks) |-> out[tasks[i]].v]

\* luigi.build returns; then _run_tasks returns the outputs or raises, and
\* execute() merges the outputs
ExecuteEnd ==
    /\ pc = "running"
    /\ WorkerExits
    /\ LET success == BuildSucceeded(status)
           m == MergeOutputs(Outputs(cur.tasks, cur.out), fs)
       IN  runs' = Append(runs,
                IF ~success
                THEN RunRecord(cur, "raised", "Error occoured while executing pipeline",
                               FALSE, NoResult, fs, status, started)
                ELSE IF ~m.ok
                THEN RunRecord(cur, "raised", m.v, TRUE, NoResult, fs, status, started)
                ELSE RunRecord(cur, "returned", "", TRUE, m.v, fs, status, started))
    /\ pc' = "idle"
    /\ cur' = Idle
    /\ status' = <<>>
    /\ workers' = {}
    /\ started' = <<>>
    /\ UNCHANGED <<aux, nodes, ident, source_files, steps, fs>>

Next ==
    \/ Mask
    \/ Tile
    \/ ComputeMetrics
    \/ Execute
    \/ \E t \in DOMAIN status : StartTask(t)
    \/ \E t \in workers : FinishTask(t)
    \/ ExecuteEnd

Spec == Init /\ [][Next]_vars

\* the scheduling of workers is fair: a runnable task is eventually taken, a
\* step function returns or raises, and luigi.build returns when it can
FairSpec ==
    /\ Spec
    /\ WF_vars(\E t \in DOMAIN status : StartTask(t))
    /\ WF_vars(\E t \in workers : FinishTask(t))
    /\ WF_vars(ExecuteEnd)

----------------------------------------------------------------------------
(* Construction of single task nodes: PipelineStep(...) with its identifier *)
(* and output evaluated.  Parameter values are numbers, None and strings    *)
(* that hold no path separator.                                             *)

MaxNodes == 2

NodeSteps ==
    { [kind |-> "mask", fn |-> Func("rgb_greyscale_mask", "threshold"), parameters |-> <<>>],
      [kind |-> "mask", fn |-> Func("rgb_greyscale_mask", "threshold_v2"), parameters |-> <<>>],
      [kind |-> "mask", fn |-> Func("ir_mask", "threshold"), parameters |-> <<>>],
      [kind |-> "mask", fn |-> Func("rgb_greyscale_mask", "threshold"),
       parameters |-> << <<"greyscale_threshold", PyInt(2)>> >>],
      [kind |-> "mask", fn |-> Func("rgb_greyscale_mask", "threshold"),
       parameters |-> << <<"level", PyNone>>, <<"mask", PyStr("cloud")>> >>],
      [kind |-> "mask", fn |-> Func("rgb_greyscale_mask", "threshold"),
       parameters |-> << <<"mask", PyInt(3)>> >>],
      [kind |-> "mask", fn |-> StrFn(">1"), parameters |-> <<>>],
      [kind |-> "mask", fn |-> Func("rgb_greyscale_mask", "threshold"),
       parameters |-> << <<"greyscale_threshold", PyStr("2")>> >>],
      [kind |-> "mask", fn |-> Func("f", "threshold"),
       parameters |-> << <<"mask", PyStr("cloud")>> >>],
      [kind |-> "mask", fn |-> Func("cloud__f", "threshold"), parameters |-> <<>>],
      [kind |-> "tile", fn |-> NoFn,
       parameters |-> << <<"window_size", PyInt(2)>>, <<"window_stride", PyNone>>,
                         <<"window_offset", PyStr("stride_center")>> >>],
      [kind |-> "metric", fn |-> NoFn, parameters |-> << <<"metric", PyStr("iorg")>> >>],
      [kind |-> "metric", fn |-> NoFn,
       parameters |-> << <<"metric", PyStr("fractal_dimension")>> >>] }

NodeSources == {SourceFile("cloudmetrics/s1.nc"), SourceFile("data/cloudmetrics/s2.nc")}

InitIdent == Init /\ source_files = SourcesIn(".")

\* PipelineStep(kind=, parent=, fn=, parameters=, debug=), then .identifier
\* and .output() of the new task
NewNode ==
    /\ Cardinality(nodes) < MaxNodes
    /\ \E st \in NodeSteps, parent \in NodeSources \cup nodes, debug \in BOOLEAN :
          LET n == PipelineStep(st.kind, parent, st.fn, st.parameters, debug)
          IN  /\ n \notin nodes
              /\ nodes' = nodes \cup {n}
              /\ ident' = [m \in nodes \cup {n} |->
                             IF m = n THEN [id |-> Identifier(n), out |-> Output(n)]
                             ELSE ident[m]]
    /\ UNCHANGED <<aux, source_files, steps, fs, pc, cur, status, workers, started, runs>>

SpecIdent == InitIdent /\ [][NewNode]_vars

----------------------------------------------------------------------------
(* The builder objects: CloudmetricPipeline values, each holding a reference *)
(* to the Python list that is its _steps.  lists[1] is the list created once *)
(* as the default of the steps argument of __init__; every find_scenes()     *)
(* builder refers to it.                                                     *)

MaxCalls == 3

\* metric name lists a caller may pass, registered names or not
MetricListsAny ==
    MetricLists \cup {<<"iorg", "no_such_metric">>, <<"bogus", "fake">>}

\* AVAILABLE_METRICS as the list it is, in the order of inspect.getmembers
AvailableMetricsSorted == <<"fractal_dimension", "iorg">>

\* mutant: the step is appended to the receiver's own list, which the
\* returned builder shares
AddStepTo_InPlace(heap, ref, step) ==
    [lists |-> [heap EXCEPT ![ref] = AddStep(@, step)], ref |-> ref]

\* _add_step on the heap: self._steps + [step] is a new list, and the new
\* builder refers to it
AddStepTo(heap, ref, step) ==
    [lists |-> Append(heap, AddStep(heap[ref], step)), ref |-> Len(heap) + 1]

\* b._steps
StepsOf(b) == lists[builders[b]]

\* a chaining call on builder b that adds step: a new builder is returned
Chain(b, op, args, step) ==
    LET r == AddStepTo(lists, builders[b], step)
    IN  /\ lists' = r.lists
        /\ builders' = Append(builders, r.ref)
        /\ calls' = Append(calls,
                       [op |-> op, recv |-> b, args |-> args,
                        before |-> StepsOf(b), step |-> step,
                        raised |-> FALSE, error |-> "", result |-> Len(builders) + 1,
                        nbuilders |-> Len(builders) + 1])

\* mutant: no name is looked up in the registry
MissingMetrics_None(metrics) == <<>>

\* compute_metrics: the requested names that are not in AVAILABLE_METRICS
MissingMetrics(metrics) == SelectSeq(metrics, LAMBDA m : m \notin AVAILABLE_METRICS)

\* the message of the NotImplementedError compute_metrics raises
MissingMetricsMessage(missing_metrics) ==
    "The " \o Join(missing_metrics, ", ") \o " metric isn't implemented, the"
      \o " available metrics are: " \o Join(AvailableMetricsSorted, ", ")

CanChain == Len(calls) < MaxCalls

\* find_scenes(source_files): a builder on the default steps list
FindScenes ==
    /\ CanChain
    /\ builders' = Append(builders, 1)
    /\ calls' = Append(calls,
                   [op |-> "find_scenes", recv |-> 0, args |-> <<>>,
                    before |-> <<>>, step |-> <<>>,
                    raised |-> FALSE, error |-> "", result |-> Len(builders) + 1,
                    nbuilders |-> Len(builders) + 1])
    /\ UNCHANGED <<modaps, lists, sx, steprun, source_files, steps, fs, pc, cur, status,
                   workers, started, runs, nodes, ident>>

\* b.mask(fn, **kwargs)
MaskOn(b) ==
    /\ CanChain
    /\ \E fn \in MaskFns, kwargs \in MaskKwargs :
          Chain(b, "mask", kwargs, [kind |-> "mask", fn |-> fn,
                                    parameters |-> kwargs, metrics |-> <<>>])
    /\ UNCHANGED <<modaps, sx, steprun, source_files, steps, fs, pc, cur, status,
                   workers, started, runs, nodes, ident>>

\* the keyword arguments a caller of tile() may give besides window_size:
\* none, window_stride, window_offset, or both
TileKwargs ==
    {stride \o offset :
        stride \in {<<>>} \cup {<< <<"window_stride", v>> >> :
                                   v \in WindowStrides \cup {PyInt(4)}},
        offset \in {<<>>} \cup {<< <<"window_offset", v>> >> :
                                   v \in WindowOffsets \cup {PyNone}}}

\* the parameters dict if window_offset defaulted to None, as it does in
\* get_sliding_window_view_strided
TileParameters_OffsetNone(window_size, kwargs) ==
    << <<"window_size", window_size>>,
       <<"window_stride", IF DictHas(kwargs, "window_stride")
                          THEN DictGet(kwargs, "window_stride") ELSE PyNone>>,
       <<"window_offset", IF DictHas(kwargs, "window_offset")
                          THEN DictGet(kwargs, "window_offset") ELSE PyNone>> >>

\* the parameters dict tile() builds from its arguments and the defaults of
\* its signature: window_stride=None, window_offset="stride_center"
TileParameters(window_size, kwargs) ==
    << <<"window_size", window_size>>,
       <<"window_stride", IF DictHas(kwargs, "window_stride")
                          THEN DictGet(kwargs, "window_stride") ELSE PyNone>>,
       <<"window_offset", IF DictHas(kwargs, "window_offset")
                          THEN DictGet(kwargs, "window_offset")
                          ELSE PyStr("stride_center")>> >>

\* b.tile(window_size, **kwargs)
TileOn(b) ==
    /\ CanChain
    /\ \E window_size \in WindowSizes, kwargs \in TileKwargs :
          Chain(b, "tile", <<<<"window_size", window_size>>>> \o kwargs,
                [kind |-> "tile", fn |-> NoFn,
                 parameters |-> TileParameters(window_size, kwargs),
                 metrics |-> <<>>])
    /\ UNCHANGED <<modaps, sx, steprun, source_files, steps, fs, pc, cur, status,
                   workers, started, runs, nodes, ident>>

\* b.compute_metrics(metrics): raises if a name is not registered, else
\* returns the builder with the step added
ComputeMetricsOn(b) ==
    /\ CanChain
    /\ \E metrics \in MetricListsAny :
          LET missing_metrics == MissingMetrics(metrics)
              step == [kind |-> "metrics", fn |-> NoFn,
                       parameters |-> <<>>, metrics |-> metrics]
          IN  IF Len(missing_metrics) > 0
              THEN /\ calls' = Append(calls,
                          [op |-> "compute_metrics", recv |-> b,
                           args |-> <<metrics>>, before |-> StepsOf(b),
                           step |-> step, raised |-> TRUE,
                           error |-> MissingMetricsMessage(missing_metrics),
                           result |-> 0, nbuilders |-> Len(builders)])
                   /\ UNCHANGED <<lists, builders>>
              ELSE Chain(b, "compute_metrics", <<metrics>>, step)
    /\ UNCHANGED <<modaps, sx, steprun, source_files, steps, fs, pc, cur, status,
                   workers, started, runs, nodes, ident>>

InitBuilder == Init /\ source_files = SourcesIn(".")

NextBuilder ==
    \/ FindScenes
    \/ \E b \in 1..Len(builders) : MaskOn(b)
    \/ \E b \in 1..Len(builders) : TileOn(b)
    \/ \E b \in 1..Len(builders) : ComputeMetricsOn(b)

SpecBuilder == InitBuilder /\ [][NextBuilder]_vars

----------------------------------------------------------------------------
(* make_scenes followed source by source and scene by scene                  *)
(* (scene_extraction.py).  A source is its path and, for an array file, the  *)
(* coordinates it has with their values.                                     *)

MaxSources == 2

NETCDF_SUFFIXES == {".nc", ".nc4"}

\* Y-m-d H:M
Time(Y, m, d, H, M) == [Y |-> Y, m |-> m, d |-> d, H |-> H, M |-> M]

Pad2(n) == IF n < 10 THEN "0" \o IntStr(n) ELSE IntStr(n)

\* time.strftime(DATETIME_FORMAT) with DATETIME_FORMAT = "%Y%d%m%H%M"
TimeStr(t) == IntStr(t.Y) \o Pad2(t.d) \o Pad2(t.m) \o Pad2(t.H) \o Pad2(t.M)

ImageSource(path) == [path |-> path, coords |-> {}, ids |-> <<>>, times |-> <<>>]
ArraySource(path, coords, ids, times) ==
    [path |-> path, coords |-> coords, ids |-> ids, times |-> times]

\* the source files a caller may pass
SourceChoices ==
    { ImageSource("a.png"), ImageSource("a.jpg"), ImageSource("data/a.png"),
      ImageSource("b.png"), ImageSource("r.txt"),
      ArraySource("m.nc", {"scene_id", "time"}, <<"a", "c">>,
                  <<Time(2020, 3, 1, 12, 30), Time(2021, 12, 31, 9, 5)>>),
      ArraySource("n.nc", {"scene_id"}, <<"c", "c">>, <<>>),
      ArraySource("t.nc", {"time"}, <<>>,
                  <<Time(2020, 3, 1, 12, 30), Time(2021, 12, 31, 9, 5)>>),
      ArraySource("x.nc", {}, <<>>, <<>>) }

\* da.sel(scene_id=...) / da.sel(time=...): one scene of an array file
SceneArray(path, sel) ==
    Array(UNNAMED, "float", {0, 10}, <<4, 4>>, FALSE, path \o "[" \o sel \o "]")

\* mutant: the time coordinate is looked at before the scene_id coordinate
IndividualScenesInFile_TimeFirst(src) ==
    IF "time" \in src.coords
    THEN Ok([k \in 1..Len(src.times) |->
               [scene_id |-> PathStem(src.path) \o "__" \o TimeStr(src.times[k]),
                da |-> SceneArray(src.path, "time=" \o TimeStr(src.times[k]))]])
    ELSE IF "scene_id" \in src.coords
    THEN Ok([k \in 1..Len(src.ids) |->
               [scene_id |-> src.ids[k],
                da |-> SceneArray(src.path, "scene_id=" \o src.ids[k])]])
    ELSE Raise("NotImplementedError")

\* _make_netcdf_scenes._individual_scenes_in_file: the (scene_id, array)
\* pairs the generator yields, or the error it raises when first advanced
IndividualScenesInFile(src) ==
    IF "scene_id" \in src.coords
    THEN Ok([k \in 1..Len(src.ids) |->
               [scene_id |-> src.ids[k],
                da |-> SceneArray(src.path, "scene_id=" \o src.ids[k])]])
    ELSE IF "time" \in src.coords
    THEN Ok([k \in 1..Len(src.times) |->
               [scene_id |-> PathStem(src.path) \o "__" \o TimeStr(src.times[k]),
                da |-> SceneArray(src.path, "time=" \o TimeStr(src.times[k]))]])
    ELSE Raise("NotImplementedError")

\* dict.__setitem__: the value is replaced in place, or the key is added
DictSet(d, key, val) ==
    IF DictHas(d, key)
    THEN [i \in 1..Len(d) |-> IF d[i][1] = key THEN <<key, val>> ELSE d[i]]
    ELSE Append(d, <<key, val>>)

\* mutant: the assignment of a plain dict
NoReplaceDictSetItem_Replace(d, key, val) ==
    [ok |-> TRUE, d |-> DictSet(d, key, val), error |-> ""]

\* NoReplaceDict.__setitem__: the dict afterwards, or the exception
NoReplaceDictSetItem(d, key, val) ==
    IF DictHas(d, key)
    THEN [ok |-> FALSE, d |-> d, error |-> "KeyExistsException"]
    ELSE [ok |-> TRUE, d |-> DictSet(d, key, val), error |-> ""]

\* dict.update(other), which NoReplaceDict inherits: it stores each item of
\* other without calling __setitem__ of the subclass
RECURSIVE DictUpdate(_, _, _)
DictUpdate(d, other, k) ==
    IF k > Len(other) THEN d
    ELSE DictUpdate(DictSet(d, other[k][1], other[k][2]), other, k + 1)

\* the path of the scene file of scene_id for a source at filepath
ScenePathFor(filepath, scene_id) ==
    PathJoin(PathJoin(PathParent(filepath), SCENE_PATH), scene_id \o ".nc")

SxSource == sx.sources[sx.i]

\* one more write of the file at path in this extraction
CountWrite(writes, path) ==
    [q \in DOMAIN writes \cup {path} |->
        IF q = path THEN (IF q \in DOMAIN writes THEN writes[q] + 1 ELSE 1)
        ELSE writes[q]]

SxRaise(error) == [sx EXCEPT !.pc = "raised", !.error = error]

\* the variables make_scenes does not touch
SxFrame ==
    UNCHANGED <<modaps, lists, builders, calls, steprun, source_files, steps, pc, cur,
                status, workers, started, runs, nodes, ident>>

InitScenes ==
    /\ source_files = <<>>
    /\ steps = <<>>
    /\ fs = <<>>
    /\ pc = "idle"
    /\ cur = Idle
    /\ status = <<>>
    /\ workers = {}
    /\ started = <<>>
    /\ runs = <<>>
    /\ nodes = {}
    /\ ident = <<>>
    /\ lists = << <<>> >>
    /\ builders = <<1>>
    /\ calls = <<>>
    /\ modaps = NoModaps
    /\ steprun = NoStep
    /\ \E n \in 1..MaxSources :
          \E sources \in [1..n -> SourceChoices] :
              sx = [pc |-> "running", sources |-> sources, i |-> 1, j |-> 0,
                    scenes |-> <<>>, inner |-> <<>>, found |-> <<>>,
                    writes |-> <<>>, error |-> "", result |-> <<>>,
                    mark |-> [scenes |-> <<>>, files |-> <<>>]]

\* the next source is an image: _make_image_scene writes the scene file,
\* then the scene is registered
ExtractImage ==
    /\ sx.pc = "running" /\ sx.i <= Len(sx.sources)
    /\ PathSuffix(SxSource.path) \in IMAGE_SUFFIXES
    /\ LET sc == MakeImageScene(SxSource.path)
           r == NoReplaceDictSetItem(sx.scenes, sc.scene_id, sc.filepath_scene)
           wrote == [sx EXCEPT !.writes = CountWrite(@, sc.filepath_scene),
                               !.found = Append(@, <<sx.i, sc.scene_id, sc.filepath_scene>>)]
       IN  /\ fs' = Write(fs, sc.filepath_scene, sc.da)
           /\ sx' = IF r.ok
                    THEN [wrote EXCEPT !.scenes = r.d, !.i = @ + 1,
                                       !.mark = [scenes |-> r.d, files |-> fs']]
                    ELSE [wrote EXCEPT !.pc = "raised", !.error = r.error]
    /\ SxFrame

\* the next source is an array file: _make_netcdf_scenes opens it and
\* advances the generator for the first time
OpenNetcdf ==
    /\ sx.pc = "running" /\ sx.i <= Len(sx.sources) /\ sx.j = 0
    /\ PathSuffix(SxSource.path) \in NETCDF_SUFFIXES
    /\ sx' = IF IndividualScenesInFile(SxSource).ok
             THEN [sx EXCEPT !.j = 1, !.inner = <<>>]
             ELSE SxRaise("NotImplementedError: coordinates")
    /\ UNCHANGED fs
    /\ SxFrame

\* the body of the loop of _make_netcdf_scenes for the j-th scene of the
\* file: the scene file is written, then the scene is registered
ExtractNetcdfScene ==
    /\ sx.pc = "running" /\ sx.j >= 1
    /\ sx.j <= Len(IndividualScenesInFile(SxSource).v)
    /\ LET y == IndividualScenesInFile(SxSource).v[sx.j]
           filepath_scene == ScenePathFor(SxSource.path, y.scene_id)
           r == NoReplaceDictSetItem(sx.inner, y.scene_id, filepath_scene)
           wrote == [sx EXCEPT !.writes = CountWrite(@, filepath_scene),
                               !.found = Append(@, <<sx.i, y.scene_id, filepath_scene>>)]
       IN  /\ fs' = Write(fs, filepath_scene, y.da)
           /\ sx' = IF r.ok
                    THEN [wrote EXCEPT !.inner = r.d, !.j = @ + 1]
                    ELSE [wrote EXCEPT !.pc = "raised", !.error = r.error]
    /\ SxFrame

\* _make_netcdf_scenes returns; make_scenes does scenes.update(...)
UpdateFromNetcdf ==
    /\ sx.pc = "running" /\ sx.j >= 1
    /\ sx.j > Len(IndividualScenesInFile(SxSource).v)
    /\ LET merged == DictUpdate(sx.scenes, sx.inner, 1)
       IN  sx' = [sx EXCEPT !.scenes = merged, !.inner = <<>>, !.j = 0, !.i = @ + 1,
                            !.mark = [scenes |-> merged, files |-> fs]]
    /\ UNCHANGED fs
    /\ SxFrame

\* the next source is of no known file type
UnsupportedSource ==
    /\ sx.pc = "running" /\ sx.i <= Len(sx.sources)
    /\ PathSuffix(SxSource.path) \notin IMAGE_SUFFIXES \cup NETCDF_SUFFIXES
    /\ sx' = SxRaise("NotImplementedError: suffix")
    /\ UNCHANGED fs
    /\ SxFrame

\* every source is done: make_scenes returns the dict
ExtractReturn ==
    /\ sx.pc = "running" /\ sx.i > Len(sx.sources)
    /\ sx' = [sx EXCEPT !.pc = "returned", !.result = sx.scenes]
    /\ UNCHANGED fs
    /\ SxFrame

NextScenes ==
    \/ ExtractImage
    \/ OpenNetcdf
    \/ ExtractNetcdfScene
    \/ UpdateFromNetcdf
    \/ UnsupportedSource
    \/ ExtractReturn

SpecScenes == InitScenes /\ [][NextScenes]_vars

----------------------------------------------------------------------------
(* A single metric node run on a given upstream artifact *)

UpstreamPath == "cloudmetrics/u.nc"

NonEmptySubsets(S) == SUBSET S \ {{}}

\* the artifacts a metric step may find upstream: boolean fields, float and
\* integer fields of several value sets, and files that are not a single field
UpstreamChoices ==
    {Array(name, "bool", vals, <<4, 4>>, FALSE, "upstream") :
        name \in {UNNAMED, "mask"}, vals \in NonEmptySubsets({0, 10})}
    \cup {Array(name, "float", vals, <<4, 4>>, FALSE, "upstream") :
        name \in {UNNAMED, "mask"}, vals \in NonEmptySubsets({0, 5, 10, 20})}
    \cup {Array(name, "int8", vals, <<4, 4>>, FALSE, "upstream") :
        name \in {UNNAMED, "mask"}, vals \in NonEmptySubsets({0, 10, 20})}
    \cup {Dataset(<<"cloud_fraction", "temperature">>), Dataset(<<>>)}

InitStep ==
    /\ source_files = <<>>
    /\ steps = <<>>
    /\ pc = "idle"
    /\ cur = Idle
    /\ status = <<>>
    /\ workers = {}
    /\ started = <<>>
    /\ runs = <<>>
    /\ nodes = {}
    /\ ident = <<>>
    /\ lists = << <<>> >>
    /\ builders = <<1>>
    /\ calls = <<>>
    /\ modaps = NoModaps
    /\ sx = NoExtraction
    /\ \E upstream \in UpstreamChoices, metric \in AVAILABLE_METRICS :
          /\ fs = [q \in {UpstreamPath} |-> upstream]
          /\ steprun = [pc |-> "ready",
                        task |-> PipelineStep("metric", SourceFile(UpstreamPath), NoFn,
                                              << <<"metric", PyStr(metric)>> >>, FALSE),
                        upstream |-> upstream,
                        result |-> Ok(upstream), cloudmask |-> Ok(upstream)]

\* PipelineStep.run of the node: _run computes and writes, or raises
RunStep ==
    /\ steprun.pc = "ready"
    /\ LET t == steprun.task
           r == StepFunction(t, Output(t.parent), fs)
       IN  /\ steprun' = [steprun EXCEPT !.pc = "done", !.result = r,
                              !.cloudmask = MetricCloudmask(fs[Output(t.parent).v])]
           /\ fs' = IF r.ok THEN Write(fs, Output(t).v, r.v) ELSE fs
    /\ UNCHANGED <<modaps, lists, builders, calls, sx, source_files, steps, pc, cur,
                   status, workers, started, runs, nodes, ident>>

SpecStep == InitStep /\ [][RunStep]_vars

----------------------------------------------------------------------------
(* A tile node and a metric node run on a field whose cells are known *)

MaxField == 8

FieldLens == {2, 5} \cup {MaxField}

\* the cells of the fields: two masks and a field of distinct numbers
CellValue(pattern, i, j, Ly) ==
    CASE pattern = "bands" -> IF (3 * i + j * j) % 5 < 2 THEN 10 ELSE 0
      [] pattern = "lower" -> IF i >= j THEN 10 ELSE 0
      [] OTHER -> 10 * (i * Ly + j)

\* the coordinate of an axis: the index, or a position in km
CoordValue(coords, i) == IF coords = "index" THEN i ELSE 100 + 5 * i

\* a 2-D field with its cells and the coordinates of its two axes
Field(pattern, coords, Lx, Ly) ==
    LET values == [c \in (0..(Lx - 1)) \X (0..(Ly - 1)) |->
                      CellValue(pattern, c[1], c[2], Ly)]
    IN  Array(IF pattern = "numbers" THEN UNNAMED ELSE "mask",
              IF pattern = "numbers" THEN "int8" ELSE "bool",
              {values[c] : c \in DOMAIN values}, <<Lx, Ly>>, FALSE, "field")
          @@ [values |-> values,
              xc |-> [i \in 1..Lx |-> CoordValue(coords, i - 1)],
              yc |-> [j \in 1..Ly |-> CoordValue(coords, j - 1)]]

FieldChoices ==
    {Field(pattern, coords, Lx, Ly) :
        pattern \in {"bands", "lower", "numbers"}, coords \in {"index", "km"},
        Lx \in FieldLens, Ly \in FieldLens}
    \cup {Array("mask", "bool", {0, 10}, <<4, 4, 3>>, FALSE, "rgb")
            @@ [values |-> [c \in (0..3) \X (0..3) \X (0..2) |->
                               CellValue("bands", c[1], c[2] + c[3], 4)],
                xc |-> <<0, 1, 2, 3>>, yc |-> <<0, 1, 2, 3>>]}

TileSizes == {PyInt(1), PyInt(2), PyInt(4)}
TileStrides == {PyNone, PyInt(1), PyInt(3), PyInt(4), PyInt(8)}
TileOffsets == {PyNone, PyStr("stride_center"), PyStr("center"), PyInt(2)}

\* the nodes execute() builds for one scene and the steps tile and
\* compute_metrics, or compute_metrics alone
TileNode(window_size, window_stride, window_offset) ==
    PipelineStep("tile", SourceFile(UpstreamPath), NoFn,
                 << <<"window_size", window_size>>,
                    <<"window_stride", window_stride>>,
                    <<"window_offset", window_offset>> >>, FALSE)

MetricNode(parent, metric) ==
    PipelineStep("metric", parent, NoFn, << <<"metric", PyStr(metric)>> >>, FALSE)

InitTile ==
    /\ source_files = <<>>
    /\ steps = <<>>
    /\ pc = "idle"
    /\ cur = Idle
    /\ status = <<>>
    /\ workers = {}
    /\ started = <<>>
    /\ runs = <<>>
    /\ nodes = {}
    /\ ident = <<>>
    /\ lists = << <<>> >>
    /\ builders = <<1>>
    /\ calls = <<>>
    /\ modaps = NoModaps
    /\ sx = NoExtraction
    /\ \E da \in FieldChoices, metric \in AVAILABLE_METRICS :
          /\ fs = [q \in {UpstreamPath} |-> da]
          /\ \/ steprun = [pc |-> "ready", upstream |-> da, chain |-> <<"metric">>,
                           tile |-> SourceFile(UpstreamPath),
                           metric |-> MetricNode(SourceFile(UpstreamPath), metric),
                           tiled |-> Ok(da), result |-> Ok(da)]
             \/ \E window_size \in TileSizes, window_stride \in TileStrides,
                   window_offset \in TileOffsets :
                   LET t == TileNode(window_size, window_stride, window_offset)
                   IN  steprun = [pc |-> "ready", upstream |-> da,
                                  chain |-> <<"tile", "metric">>,
                                  tile |-> t, metric |-> MetricNode(t, metric),
                                  tiled |-> Ok(da), result |-> Ok(da)]

\* PipelineStep.run of the tile node
RunTile ==
    /\ steprun.pc = "ready"
    /\ steprun.chain[1] = "tile"
    /\ LET t == steprun.tile
           r == StepFunction(t, Output(t.parent), fs)
       IN  /\ steprun' = [steprun EXCEPT !.pc = IF r.ok THEN "tiled" ELSE "failed",
                                         !.tiled = r]
           /\ fs' = IF r.ok THEN Write(fs, Output(t).v, r.v) ELSE fs
    /\ UNCHANGED <<modaps, lists, builders, calls, sx, source_files, steps, pc, cur,
                   status, workers, started, runs, nodes, ident>>

\* PipelineStep.run of the metric node, once the output of its parent exists
RunMetric ==
    /\ \/ steprun.pc = "ready" /\ steprun.chain[1] = "metric"
       \/ steprun.pc = "tiled"
    /\ LET t == steprun.metric
           r == StepFunction(t, Output(t.parent), fs)
       IN  /\ steprun' = [steprun EXCEPT !.pc = IF r.ok THEN "measured" ELSE "failed",
                                         !.result = r]
           /\ fs' = IF r.ok THEN Write(fs, Output(t).v, r.v) ELSE fs
    /\ UNCHANGED <<modaps, lists, builders, calls, sx, source_files, steps, pc, cur,
                   status, workers, started, runs, nodes, ident>>

NextTile == RunTile \/ RunMetric

SpecTile == InitTile /\ [][NextTile]_vars

----------------------------------------------------------------------------
(* execute() of pipelines given with their steps,                            *)
(* CloudmetricPipeline(source_files, steps), with the arguments of each call *)
(* kept in calls                                                             *)

\* step dicts as mask() and compute_metrics() build them, a mask step with a
\* string for its transform, and a step of a kind the pipeline does not know
MaskStep == [kind |-> "mask", fn |-> Func("rgb_greyscale_mask", "threshold"),
             parameters |-> <<>>, metrics |-> <<>>]
ShorthandMaskStep == [kind |-> "mask", fn |-> StrFn(">0.1"),
                      parameters |-> <<>>, metrics |-> <<>>]
UnknownKindStep == [kind |-> "blur", fn |-> NoFn, parameters |-> <<>>, metrics |-> <<>>]
MetricsStep == [kind |-> "metrics", fn |-> NoFn, parameters |-> <<>>,
                metrics |-> <<"iorg">>]

\* the step compute_metrics([]) builds
NoMetricsStep == [kind |-> "metrics", fn |-> NoFn, parameters |-> <<>>, metrics |-> <<>>]

DirectPipelines ==
    {<<>>, <<MaskStep>>, <<MaskStep, MetricsStep>>, <<ShorthandMaskStep>>,
     <<UnknownKindStep>>, <<MaskStep, UnknownKindStep>>, <<MaskStep, NoMetricsStep>>}

DirectSources == {<<>>} \cup {SourcesIn(d) : d \in SourceDirs}

InitDirect ==
    /\ source_files \in DirectSources
    /\ steps \in DirectPipelines
    /\ fs = <<>>
    /\ pc = "idle"
    /\ cur = Idle
    /\ status = <<>>
    /\ workers = {}
    /\ started = <<>>
    /\ runs = <<>>
    /\ nodes = {}
    /\ ident = <<>>
    /\ lists = << <<>> >>
    /\ builders = <<1>>
    /\ calls = <<>>
    /\ modaps = NoModaps
    /\ sx = NoExtraction
    /\ steprun = NoStep

\* execute(parallel_tasks, debug, clean); the call and its arguments are kept
ExecuteDirect ==
    /\ CanCall
    /\ \E parallel_tasks \in 1..MaxWorkers, debug \in BOOLEAN, clean \in BOOLEAN :
          /\ ExecuteCall(parallel_tasks, debug, clean)
          /\ calls' = Append(calls, [op |-> "execute", parallel_tasks |-> parallel_tasks,
                                     debug |-> debug, clean |-> clean])
    /\ UNCHANGED <<modaps, lists, builders, sx, steprun, nodes, ident, source_files, steps>>

NextDirect ==
    \/ ExecuteDirect
    \/ \E t \in DOMAIN status : StartTask(t)
    \/ \E t \in workers : FinishTask(t)
    \/ ExecuteEnd

SpecDirect == InitDirect /\ [][NextDirect]_vars

----------------------------------------------------------------------------
(* download/modis.py: modis_modaps_pipeline over several calls and Python    *)
(* processes.  fs holds the order reference files; the MODAPS server hands   *)
(* out a new order id for every order placed.                                *)

MaxDownloads == 3
MaxProcesses == 2
MaxSeeds == 2

\* the arguments of a call besides data_path
Queries ==
    {[start_date |-> "2020-01-01", end_date |-> "2020-01-02", satellites |-> <<"Terra", "Aqua">>],
     [start_date |-> "2020-02-01", end_date |-> "2020-02-02", satellites |-> <<"Terra">>]}

DataPathArgs == {"modaps.{query_hash}", "modaps_data"}

\* json.dumps(locals(), sort_keys=True) at the head of modis_modaps_pipeline:
\* every argument of the call, data_path included (bbox, collection and
\* products are the same in every call of the model)
JsonDumpsLocals(q, data_path) ==
    "{data_path: " \o data_path \o ", end_date: " \o q.end_date
      \o ", satellites: [" \o Join(q.satellites, ", ") \o "]"
      \o ", start_date: " \o q.start_date \o "}"

\* mutant: a digest that does not depend on the process
DictToHash_Stable(seed, data) == "hash(" \o data \o ")"

\* utils.dict_to_hash: hash() of a str is keyed by the hash seed of the
\* Python process (PYTHONHASHSEED, random when unset); the number is kept
\* symbolic: equal for equal seed and text, different otherwise
DictToHash(seed, data) == "hash" \o IntStr(seed) \o "(" \o data \o ")"

\* the position of the first occurrence of sub in s, 0 if there is none
Find(s, sub) ==
    LET at == {k \in 1..(Len(s) - Len(sub) + 1) : SubSeq(s, k, k + Len(sub) - 1) = sub}
    IN  IF at = {} THEN 0 ELSE CHOOSE k \in at : \A m \in at : k <= m

\* data_path.format(**locals()): {query_hash} replaced by the hash
FormatDataPath(data_path, query_hash) ==
    LET k == Find(data_path, "{query_hash}")
    IN  IF k = 0 THEN data_path
        ELSE SubSeq(data_path, 1, k - 1) \o query_hash
               \o SubSeq(data_path, k + Len("{query_hash}"), Len(data_path))

\* the order ids the server returns for the orders of one call: one order
\* per satellite, numbered on from the orders it has
NewOrderIds(n, satellites) == [k \in 1..Len(satellites) |-> "order" \o IntStr(n + k)]

InitModaps ==
    /\ source_files = <<>>
    /\ steps = <<>>
    /\ fs = <<>>
    /\ pc = "idle"
    /\ cur = Idle
    /\ status = <<>>
    /\ workers = {}
    /\ started = <<>>
    /\ runs = <<>>
    /\ nodes = {}
    /\ ident = <<>>
    /\ lists = << <<>> >>
    /\ builders = <<1>>
    /\ calls = <<>>
    /\ sx = NoExtraction
    /\ steprun = NoStep
    /\ \E seed \in 1..MaxSeeds :
          modaps = [pc |-> "download", process |-> 1, seed |-> seed,
                    orders |-> 0, calls |-> <<>>]

\* a new Python process is started: its hash seed is any seed
StartProcess ==
    /\ modaps.process < MaxProcesses
    /\ \E seed \in 1..MaxSeeds :
          modaps' = [modaps EXCEPT !.process = @ + 1, !.seed = seed]
    /\ UNCHANGED <<lists, builders, calls, sx, steprun, source_files, steps, fs,
                   pc, cur, status, workers, started, runs, nodes, ident>>

\* modis_modaps_pipeline(start_date, end_date, bbox, data_path, ..): whether
\* the credentials are set, whether the query matches files and whether the
\* orders are available is not in the program's hands
ModisModapsPipeline ==
    /\ Len(modaps.calls) < MaxDownloads
    /\ \E q \in Queries, data_path \in DataPathArgs,
          credentials \in BOOLEAN, matches \in BOOLEAN, available \in BOOLEAN :
          LET query_hash == DictToHash(modaps.seed, JsonDumpsLocals(q, data_path))
              path == FormatDataPath(data_path, query_hash)
              order_reference_filepath == PathJoin(path, "modaps_orders.yml")
              exists == order_reference_filepath \in DOMAIN fs
              call == [q |-> q, data_path_arg |-> data_path, process |-> modaps.process,
                       credentials |-> credentials, data_path |-> path,
                       found |-> exists, placed |-> <<>>, checked |-> <<>>,
                       outcome |-> "Exception: credentials"]
              done(c, n, files) ==
                  /\ modaps' = [modaps EXCEPT !.calls = Append(@, c), !.orders = n]
                  /\ fs' = files
          IN  IF ~credentials THEN done(call, modaps.orders, fs)
              ELSE IF ~exists
              THEN LET order_ids == IF matches THEN NewOrderIds(modaps.orders, q.satellites)
                                    ELSE <<>>
                   IN  IF Len(order_ids) > 0
                       THEN done([call EXCEPT !.placed = order_ids,
                                              !.outcome = "MODAPSOrderProcessingException: placed"],
                                 modaps.orders + Len(order_ids),
                                 Write(fs, order_reference_filepath, order_ids))
                       ELSE done([call EXCEPT !.outcome = "Exception: no files"],
                                 modaps.orders, fs)
              ELSE LET order_ids == fs[order_reference_filepath]
                   IN  done([call EXCEPT !.checked = order_ids,
                                         !.outcome = IF available THEN "returned"
                                                     ELSE "MODAPSOrderProcessingException: processing"],
                            modaps.orders, fs)
    /\ UNCHANGED <<lists, builders, calls, sx, steprun, source_files, steps,
                   pc, cur, status, workers, started, runs, nodes, ident>>

NextModaps == StartProcess \/ ModisModapsPipeline

SpecModaps == InitModaps /\ [][NextModaps]_vars

----------------------------------------------------------------------------
(* The other download functions, each followed through its loop.  A date is  *)
(* the number of its day (date.toordinal(): day 1 is a Monday).              *)

\* the variables the download functions do not touch
pipeline == <<lists, builders, calls, sx, steprun, source_files, steps,
              pc, cur, status, workers, started, runs, nodes, ident>>

\* no pipeline has been built or executed
NoPipeline ==
    /\ source_files = <<>>
    /\ steps = <<>>
    /\ pc = "idle"
    /\ cur = Idle
    /\ status = <<>>
    /\ workers = {}
    /\ started = <<>>
    /\ runs = <<>>
    /\ nodes = {}
    /\ ident = <<>>
    /\ lists = << <<>> >>
    /\ builders = <<1>>
    /\ calls = <<>>
    /\ sx = NoExtraction
    /\ steprun = NoStep

(* download/modaps.py: _create_query_date_intervals *)

MaxDate == 16

\* d.isocalendar().weekday: 1 for Monday to 7 for Sunday
IsoWeekday(d) == ((d - 1) % 7) + 1

InitIntervals ==
    /\ NoPipeline
    /\ fs = <<>>
    /\ \E start_date \in 1..MaxDate, end_date \in 1..MaxDate :
          modaps = [pc |-> "intervals", start_date |-> start_date, end_date |-> end_date,
                    d |-> start_date, yielded |-> <<>>, done |-> FALSE]

\* one turn of the while loop: the interval from d to the end of d's week,
\* or to end_date if that comes first, is yielded
YieldInterval ==
    /\ modaps.pc = "intervals" /\ ~modaps.done
    /\ modaps.d < modaps.end_date
    /\ LET d == modaps.d
           weekday_offset == IsoWeekday(d) - 1
           d_next == d + (7 - weekday_offset)
           d_end == IF d_next - 1 > modaps.end_date THEN modaps.end_date ELSE d_next - 1
       IN  modaps' = [modaps EXCEPT !.yielded = Append(@, <<d, d_end>>), !.d = d_next]
    /\ UNCHANGED <<pipeline, fs>>

\* the loop ends: the generator is exhausted
IntervalsEnd ==
    /\ modaps.pc = "intervals" /\ ~modaps.done
    /\ ~(modaps.d < modaps.end_date)
    /\ modaps' = [modaps EXCEPT !.done = TRUE]
    /\ UNCHANGED <<pipeline, fs>>

NextIntervals == YieldInterval \/ IntervalsEnd

SpecIntervals == InitIntervals /\ [][NextIntervals]_vars

(* download/modaps.py: modaps_pipeline from the loop over the order database *)
(* on: the orders of the database and the status the server gives for each   *)

MaxOrders == 3

ProcessingStatuses ==
    {"Requesting files", "File request completed", "New", "Post processing",
     "Post processing complete", "Running"}

\* the statuses the server answers with in the model
OrderStatuses == {"Available", "New", "Running", "Removed", "Archived"}

OrderDbs ==
    UNION {[1..n -> OrderStatuses] : n \in 0..MaxOrders}

InitOrders ==
    /\ NoPipeline
    /\ fs = <<>>
    /\ \E statuses \in OrderDbs :
          modaps = [pc |-> "orders", statuses |-> statuses,
                    order_db |-> [k \in 1..Len(statuses) |-> "order" \o IntStr(k)],
                    k |-> 1, processing_orders |-> <<>>, fetched |-> <<>>,
                    removed |-> <<>>, outcome |-> "running"]

\* the statements of the loop body that follow the continue: the status of
\* the order is asked for and acted on
FetchBody_Checked(m) ==
    LET order_id == m.order_db[m.k]
        order_status == m.statuses[m.k]
        next == [m EXCEPT !.k = @ + 1]
    IN  IF order_status \in {"Removed", "Canceled"}
        THEN [next EXCEPT !.removed = Append(@, order_id)]
        ELSE IF order_status = "Available"
        THEN [next EXCEPT !.fetched = Append(@, order_id)]
        ELSE IF order_status \in ProcessingStatuses
        THEN [next EXCEPT !.processing_orders = Append(@, order_id)]
        ELSE [next EXCEPT !.outcome = "NotImplementedError"]

\* the loop body as it runs: order_id is read and the continue that follows
\* goes to the next order
FetchBody(m) == [m EXCEPT !.k = @ + 1]

\* one turn of the loop over order_db.keys
FetchOrder ==
    /\ modaps.pc = "orders" /\ modaps.outcome = "running"
    /\ modaps.k <= Len(modaps.order_db)
    /\ modaps' = FetchBody(modaps)
    /\ UNCHANGED <<pipeline, fs>>

\* after the loop: MODAPSOrderProcessingException if an order was found
\* processing, else the files are post-processed and the pipeline returned
OrdersEnd ==
    /\ modaps.pc = "orders" /\ modaps.outcome = "running"
    /\ modaps.k > Len(modaps.order_db)
    /\ modaps' = [modaps EXCEPT !.outcome =
                     IF Len(modaps.processing_orders) > 0
                     THEN "MODAPSOrderProcessingException" ELSE "returned"]
    /\ UNCHANGED <<pipeline, fs>>

NextOrders == FetchOrder \/ OrdersEnd

SpecOrders == InitOrders /\ [][NextOrders]_vars

(* download/modis.py: download_MODIS_RGB_scenes; the dates are days of       *)
(* January 2020                                                              *)

MaxDay == 5

RgbSatellites == {<<"Terra", "Aqua">>, <<"Terra">>, <<"Aqua">>}

\* Path(data_path) / f"{t.strftime(DATETIME_FORMAT)}_{satellite}.{image_format}"
RgbFilepath(day, satellite) ==
    PathJoin("modis", TimeStr(Time(2020, 1, day, 0, 0)) \o "_" \o satellite \o ".png")

\* the for loop over the satellites, from the k-th on: a file that is not
\* there is downloaded, the path is appended, and t is moved on by a day
RECURSIVE RgbSatelliteLoop(_, _, _, _, _)
RgbSatelliteLoop(satellites, k, t, file_paths, files) ==
    IF k > Len(satellites) THEN [t |-> t, file_paths |-> file_paths, files |-> files]
    ELSE LET filepath == RgbFilepath(t, satellites[k])
             downloaded == IF filepath \in DOMAIN files THEN files
                           ELSE Write(files, filepath,
                                      [image |-> "MODIS_" \o satellites[k], day |-> t])
         IN  RgbSatelliteLoop(satellites, k + 1, t + 1,
                              Append(file_paths, filepath), downloaded)

InitRgb ==
    /\ NoPipeline
    /\ fs = <<>>
    /\ \E start_date \in 1..MaxDay, end_date \in 1..MaxDay, satellites \in RgbSatellites :
          modaps = [pc |-> "rgb", start_date |-> start_date, end_date |-> end_date,
                    satellites |-> satellites, t |-> start_date,
                    file_paths |-> <<>>, returned |-> FALSE]

\* one turn of the while loop
RgbDay ==
    /\ modaps.pc = "rgb" /\ ~modaps.returned
    /\ modaps.t < modaps.end_date
    /\ LET r == RgbSatelliteLoop(modaps.satellites, 1, modaps.t, modaps.file_paths, fs)
       IN  /\ modaps' = [modaps EXCEPT !.t = r.t, !.file_paths = r.file_paths]
           /\ fs' = r.files
    /\ UNCHANGED pipeline

\* return file_paths
RgbReturn ==
    /\ modaps.pc = "rgb" /\ ~modaps.returned
    /\ ~(modaps.t < modaps.end_date)
    /\ modaps' = [modaps EXCEPT !.returned = TRUE]
    /\ UNCHANGED <<pipeline, fs>>

NextRgb == RgbDay \/ RgbReturn

SpecRgb == InitRgb /\ [][NextRgb]_vars

----------------------------------------------------------------------------
(* Properties *)

IsNode(t) == t.cls = "PipelineStep"

\* the task nodes of a graph: the frontier tasks and all their ancestors
RECURSIVE Ancestors(_)
Ancestors(t) == IF IsNode(t) THEN {t} \cup Ancestors(t.parent) ELSE {}

GraphNodes(tasks) == UNION {Ancestors(tasks[i]) : i \in 1..Len(tasks)}

\* C1: a task node whose output file exists when the build is scheduled is
\* done from the start: run() is never entered for it, nor for any task with
\* the same output, and the file keeps what it held; during the build and in
\* every finished execute().
C1_CachedNotRun ==
    /\ pc = "running" =>
          \A t \in DOMAIN status :
              (IsNode(t) /\ Output(t).ok /\ Output(t).v \in DOMAIN cur.fs1) =>
                  /\ status[t] = "DONE"
                  /\ \A u \in DOMAIN status : Output(u) = Output(t) => started[u] = 0
                  /\ Output(t).v \in DOMAIN fs
                  /\ fs[Output(t).v] = cur.fs1[Output(t).v]
    /\ \A i \in 1..Len(runs) :
          \A t \in DOMAIN runs[i].sched :
              (IsNode(t) /\ Output(t).ok /\ Output(t).v \in DOMAIN runs[i].fs1) =>
                  /\ runs[i].final[t] = "DONE"
                  /\ runs[i].started[t] = 0
                  /\ Output(t).v \in DOMAIN runs[i].fs_end
                  /\ runs[i].fs_end[Output(t).v] = runs[i].fs1[Output(t).v]

\* a build in which one node is cached while another node is being computed
C1_Witness ==
    /\ pc = "running"
    /\ \E t \in DOMAIN status :
          /\ IsNode(t) /\ Output(t).v \in DOMAIN cur.fs1
          /\ \E u \in DOMAIN status : IsNode(u) /\ started[u] = 1 /\ u.parent = t

\* C2: whenever run() of a task node has been entered in the build in
\* progress, the output of its parent exists (no file is removed while a
\* build runs, so it existed when run() was entered).
C2_ParentFirst ==
    pc = "running" =>
        \A t \in DOMAIN started :
            started[t] > 0 =>
                Output(t.parent).ok /\ Output(t.parent).v \in DOMAIN fs

\* two workers; a second-step node runs whose parent was computed in this build
C2_Witness ==
    /\ pc = "running"
    /\ cur.parallel_tasks = 2
    /\ \E t \in workers : IsNode(t.parent) /\ started[t.parent] = 1

C4_RerunCached ==
    \A i \in 1..(Len(runs) - 1) :
        (/\ runs[i].outcome = "returned"
         /\ runs[i + 1].error # "Debugging"
         /\ runs[i + 1].steps = runs[i].steps
         /\ runs[i + 1].fs0 = runs[i].fs_end) =>
            /\ \A t \in DOMAIN runs[i + 1].started : runs[i + 1].started[t] = 0
            /\ \A k \in 1..Len(runs[i + 1].tasks) :
                  runs[i + 1].sched[runs[i + 1].tasks[k]] = "DONE"
            /\ runs[i + 1].outcome = "returned"
            /\ runs[i + 1].result = runs[i].result

\* a two-step pipeline computed by the first execute() and executed again
C4_Witness ==
    /\ Len(runs) = 2
    /\ runs[1].outcome = "returned" /\ runs[2].outcome = "returned"
    /\ Len(runs[1].steps) = 2 /\ runs[2].steps = runs[1].steps
    /\ runs[2].fs0 = runs[1].fs_end
    /\ \E t \in DOMAIN runs[1].started : runs[1].started[t] = 1

C6_ParallelAsSerial ==
    \A i, j \in 1..Len(runs) :
        (/\ runs[i].parallel_tasks = 1
         /\ runs[j].parallel_tasks > 1
         /\ runs[j].error # "Debugging"
         /\ runs[i].steps = runs[j].steps
         /\ runs[i].fs1 = runs[j].fs1) =>
            /\ runs[i].outcome = runs[j].outcome
            /\ runs[i].error = runs[j].error
            /\ runs[i].result = runs[j].result
            /\ runs[i].fs_end = runs[j].fs_end

\* a serial and a parallel execute() of a two-step pipeline, both computing
\* from the scene files alone and both returning
C6_Witness ==
    /\ Len(runs) = 2
    /\ runs[1].parallel_tasks = 1 /\ runs[2].parallel_tasks = 2
    /\ runs[1].steps = runs[2].steps /\ Len(runs[1].steps) = 2
    /\ runs[1].fs1 = runs[2].fs1
    /\ runs[1].outcome = "returned" /\ runs[2].outcome = "returned"
    /\ \E t \in DOMAIN runs[2].started : runs[2].started[t] = 1

\* how a finished execute() may end: it raised, or it returned with the
\* output of every task node of its graph on disk
EndedProperly(r) ==
    \/ r.outcome = "raised"
    \/ /\ r.outcome = "returned"
       /\ \A t \in GraphNodes(r.tasks) : Output(t).ok /\ Output(t).v \in DOMAIN r.fs_end

\* C7: under fair scheduling every execute() whose build has started ends,
\* raising or returning with every node's output present.
C7_Terminates ==
    (pc = "running") ~> (pc = "idle" /\ Len(runs) > 0 /\ EndedProperly(runs[Len(runs)]))

\* a parallel execute() of a two-step pipeline that has returned
C7_Witness ==
    /\ pc = "idle" /\ Len(runs) > 0
    /\ LET r == runs[Len(runs)]
       IN  /\ r.outcome = "returned" /\ r.parallel_tasks = 2 /\ Len(r.steps) = 2
           /\ \E t \in DOMAIN r.started : r.started[t] = 1

\* the same step: kind, parameters (an ordered mapping) and transform name
SameStep(a, b) ==
    /\ a.kind = b.kind
    /\ a.parameters = b.parameters
    /\ a.fn.t = b.fn.t
    /\ a.fn.name = b.fn.name

\* C8: two task nodes with the same step have the same identifier, whatever
\* their parents, debug flags and transform implementations are; with the
\* same parent (or parents with the same output) they have the same output.
C8_IdentifierPure ==
    \A a, b \in nodes :
        SameStep(a, b) =>
            /\ ident[a].id = ident[b].id
            /\ Output(a.parent) = Output(b.parent) => ident[a].out = ident[b].out

\* two nodes under one parent with transforms of one name that compute
\* different things, both with an identifier
C8_Witness ==
    \E a, b \in nodes :
        /\ SameStep(a, b) /\ a.parent = b.parent
        /\ a.fn.impl # b.fn.impl
        /\ ident[a].id.ok /\ ident[a].out.ok

\* the identifier as the specification words it
ClaimedIdentifier(n) ==
    LET hasKey == DictHas(n.parameters, n.kind)
        rest == SelectSeq(n.parameters, LAMBDA kv : kv[1] # n.kind)
        pairs == [i \in 1..Len(rest) |-> rest[i][1] \o "=" \o Format(rest[i][2])]
    IN  n.kind
          \o (IF hasKey THEN "__" \o DictGet(n.parameters, n.kind).s ELSE "")
          \o (IF Len(rest) > 0 THEN "__" \o Join(pairs, "__") ELSE "")
          \o (IF n.fn.t # "none" THEN "__" \o n.fn.name ELSE "")

RECURSIVE ChainIdentifiers(_)
ChainIdentifiers(n) ==
    IF IsNode(n) THEN Append(ChainIdentifiers(n.parent), ident[n].id.v) ELSE <<>>

Fanout(step) == IF step.kind = "metrics" THEN Len(step.metrics) ELSE 1

RECURSIVE ProductOfFanout(_, _)
ProductOfFanout(stepseq, n) ==
    IF n = 0 THEN 1 ELSE Fanout(stepseq[n]) * ProductOfFanout(stepseq, n - 1)

\* F is the frontier after the first n steps of stepseq over the scene files:
\* for n = 0 one SourceFile per scene file, in order; for n > 0 a block of
\* Fanout(step n) nodes of step n for each node of the frontier before it
RECURSIVE ExpandsFrom(_, _, _, _)
ExpandsFrom(F, stepseq, n, scene_files) ==
    IF n = 0
    THEN F = [i \in 1..Len(scene_files) |-> SourceFile(scene_files[i])]
    ELSE LET step == stepseq[n]
             k == Fanout(step)
             prev == [j \in 1..(Len(F) \div k) |-> F[(j - 1) * k + 1].parent]
         IN  /\ Len(F) % k = 0
             /\ \A j \in 1..(Len(F) \div k), m \in 1..k :
                   LET t == F[(j - 1) * k + m]
                   IN  /\ IsNode(t)
                       /\ t.parent = prev[j]
                       /\ IF step.kind = "metrics"
                          THEN /\ t.kind = "metric"
                               /\ t.parameters = << <<"metric", PyStr(step.metrics[m])>> >>
                          ELSE /\ t.kind = step.kind
                               /\ t.parameters = step.parameters
                               /\ t.fn = step.fn
             /\ ExpandsFrom(prev, stepseq, n - 1, scene_files)

\* the scene files make_scenes returned to an execute() that started on files
SceneFilesOf(files) ==
    LET sc == MakeScenes(source_files, files).scenes
    IN  [i \in 1..Len(sc) |-> sc[i][2]]

\* C11: the frontier of every execute() that reached graph expansion is
\* built step by step, one node per node of the previous frontier and one
\* node per metric name for a compute_metrics step; it has (number of scenes)
\* times (product of the numbers of metric names) entries.
C11_GraphExpansion ==
    /\ pc = "running" =>
          /\ ExpandsFrom(cur.tasks, steps, Len(steps), SceneFilesOf(cur.fs0))
          /\ Len(cur.tasks) = NumScenes * ProductOfFanout(steps, Len(steps))
    /\ \A i \in 1..Len(runs) :
          runs[i].tasks # <<>> =>
              /\ ExpandsFrom(runs[i].tasks, runs[i].steps, Len(runs[i].steps),
                             SceneFilesOf(runs[i].fs0))
              /\ Len(runs[i].tasks) =
                    NumScenes * ProductOfFanout(runs[i].steps, Len(runs[i].steps))

\* an execute() over two compute_metrics steps of two names each: four
\* frontier entries per scene
C11_Witness ==
    \E i \in 1..Len(runs) :
        /\ Len(runs[i].steps) = 2
        /\ \A n \in 1..2 : runs[i].steps[n].kind = "metrics"
        /\ Len(runs[i].tasks) = NumScenes * 4

\* the scenes make_scenes registered for an execute() that started on files
ScenesOf(files) == MakeScenes(source_files, files).scenes

\* node t of a graph over the registered scenes belongs to one of them: its
\* scene_id is the ID under which the scene file at the root of its chain
\* was registered, its only requirement is its parent, and its parent, when
\* a node, has the same scene_id
InOneScene(t, scenes) ==
    /\ Requires(t) = {t.parent}
    /\ Output(t.parent).ok =>
          /\ \E k \in 1..Len(scenes) :
                /\ scenes[k][2] = RootOf(t).filepath
                /\ SceneIdOf(t) = Ok(scenes[k][1])
          /\ IsNode(t.parent) => SceneIdOf(t.parent) = SceneIdOf(t)

\* C12: in the execute() in progress and in the one that has just ended,
\* every node of the task graph, at every depth, has the scene ID of the
\* scene at the root of its chain, depends on its parent only, and its parent
\* belongs to the same scene.
C12_SceneIdAlongChain ==
    /\ pc = "running" =>
          LET scenes == ScenesOf(cur.fs0)
          IN  \A t \in GraphNodes(cur.tasks) : InOneScene(t, scenes)
    /\ (pc = "idle" /\ Len(runs) > 0) =>
          LET r == runs[Len(runs)]
              scenes == ScenesOf(r.fs0)
          IN  \A t \in GraphNodes(r.tasks) : InOneScene(t, scenes)

\* a node of the second step whose run() was entered, its parent being a
\* node that ran in the same execute()
C12_Witness ==
    \E i \in 1..Len(runs) :
        \E t \in GraphNodes(runs[i].tasks) :
            /\ IsNode(t.parent)
            /\ runs[i].started[t] = 1 /\ runs[i].started[t.parent] = 1
            /\ SceneIdOf(t) = Ok("s2")

\* sub occurs in the string s
Contains(s, sub) ==
    \E i \in 1..(Len(s) - Len(sub) + 1) : SubSeq(s, i, i + Len(sub) - 1) = sub

\* C13: for every chaining call made so far, whatever was called since: the
\* returned builder's steps are the receiver's steps at the call followed
\* by the new step, the receiver's steps are what they were, and of two
\* builders returned by calls on the same receiver neither holds the step
\* the other was given.
C13_BuilderImmutable ==
    /\ \A i \in 1..Len(calls) :
          LET c == calls[i]
          IN  (c.op # "find_scenes" /\ ~c.raised) =>
                  /\ StepsOf(c.result) = c.before \o <<c.step>>
                  /\ StepsOf(c.recv) = c.before
                  /\ c.result # c.recv
    /\ \A i, j \in 1..Len(calls) :
          LET c == calls[i]
              d == calls[j]
          IN  (/\ c.op # "find_scenes" /\ d.op # "find_scenes"
               /\ ~c.raised /\ ~d.raised
               /\ c.recv = d.recv /\ c.step # d.step) =>
                  /\ Len(StepsOf(c.result)) = Len(StepsOf(c.recv)) + 1
                  /\ \A k \in 1..Len(StepsOf(c.result)) :
                        StepsOf(c.result)[k] = d.step => k <= Len(c.before)
    /\ \A i \in 1..Len(calls) :
          (calls[i].op = "find_scenes") => StepsOf(calls[i].result) = <<>>

\* a fork: two different steps chained on one builder, and a further step
\* chained on one of the two results
C13_Witness ==
    \E i, j, k \in 1..Len(calls) :
        /\ i < j /\ j < k
        /\ ~calls[i].raised /\ ~calls[j].raised /\ ~calls[k].raised
        /\ calls[i].op = "mask" /\ calls[j].op = "compute_metrics"
        /\ calls[i].recv = calls[j].recv
        /\ calls[k].recv = calls[i].result /\ calls[k].op = "tile"

\* C18: a compute_metrics call with a name that is not registered raised;
\* its message holds each unknown name and each registered name; it returned
\* no builder and no builder holds its step; and nothing was extracted or
\* built by it.  A call with registered names only did not raise.
C18_UnknownMetricRaises ==
    \A i \in 1..Len(calls) :
        LET c == calls[i]
            unknown == {c.step.metrics[k] : k \in 1..Len(c.step.metrics)}
                          \ AVAILABLE_METRICS
        IN  c.op = "compute_metrics" =>
                /\ c.raised <=> unknown # {}
                /\ c.raised =>
                      /\ \A m \in unknown : Contains(c.error, m)
                      /\ \A m \in AVAILABLE_METRICS : Contains(c.error, m)
                      /\ c.result = 0
                      /\ c.nbuilders = (IF i = 1 THEN 1 ELSE calls[i - 1].nbuilders)
                      /\ \A b \in 1..Len(builders) :
                            \A k \in 1..Len(StepsOf(b)) : StepsOf(b)[k] # c.step
                      /\ fs = <<>> /\ runs = <<>> /\ status = <<>> /\ nodes = {}

\* a compute_metrics call with one registered and one unknown name, made on
\* a builder that holds a step, followed by another chaining call
C18_Witness ==
    \E i \in 1..(Len(calls) - 1) :
        /\ calls[i].op = "compute_metrics" /\ calls[i].raised
        /\ calls[i].step.metrics = <<"iorg", "no_such_metric">>
        /\ Len(calls[i].before) = 1
        /\ ~calls[i + 1].raised

\* the scene IDs discovered so far in the extraction, in order
FoundIds == [k \in 1..Len(sx.found) |-> sx.found[k][2]]

\* the scene IDs discovered in the n-th source
FoundIn(n) ==
    LET f == SelectSeq(sx.found, LAMBDA e : e[1] = n)
    IN  [k \in 1..Len(f) |-> f[k][2]]

HasDuplicate(q) == \E a, b \in 1..Len(q) : a # b /\ q[a] = q[b]

\* C14: an extraction in which two discovered scenes have the same scene ID
\* does not return, it fails with the Key-Exists error; and a registered
\* scene ID stays bound to the artifact it was first registered with.
C14_DuplicateIdRaises ==
    sx.pc # "idle" =>
        /\ (sx.pc = "returned") => ~HasDuplicate(FoundIds)
        /\ (sx.pc = "raised" /\ HasDuplicate(FoundIds)) => sx.error = "KeyExistsException"
        /\ \A k \in 1..Len(sx.scenes) :
              \E e \in 1..Len(sx.found) :
                  /\ sx.found[e][2] = sx.scenes[k][1]
                  /\ sx.found[e][3] = sx.scenes[k][2]
                  /\ \A e2 \in 1..(e - 1) : sx.found[e2][2] # sx.scenes[k][1]

\* an extraction that ended with the Key-Exists error for a scene of an
\* array file whose ID an image had registered
C14_Witness ==
    /\ sx.pc = "raised" /\ sx.error = "KeyExistsException"
    /\ Len(sx.sources) = 2
    /\ PathSuffix(sx.sources[1].path) \in NETCDF_SUFFIXES
    /\ PathSuffix(sx.sources[2].path) \in IMAGE_SUFFIXES

\* the keys and the value tried on the mappings of the extraction
KeysTried == {"a", "b", "c", "t__202001031230", "zz"}
ValueTried == "elsewhere/new.nc"

\* item assignment on mapping d: an exception and d as it was if the key is
\* present; otherwise the key bound to the value and every other entry as
\* it was
SetItemAsClaimed(d) ==
    \A key \in KeysTried :
        LET r == NoReplaceDictSetItem(d, key, ValueTried)
        IN  IF DictHas(d, key)
            THEN ~r.ok /\ r.error = "KeyExistsException" /\ r.d = d
            ELSE /\ r.ok
                 /\ DictHas(r.d, key) /\ DictGet(r.d, key) = ValueTried
                 /\ Len(r.d) = Len(d) + 1
                 /\ \A k \in 1..Len(d) : r.d[k] = d[k]

\* C15: on every mapping the extraction builds, item assignment of a present
\* key raises KeyExistsException and leaves the mapping as it was, and of an
\* absent key stores that value and changes no other entry; an extraction
\* that ended with that exception left the registered scenes as they were.
C15_NoReplaceSetItem ==
    sx.pc # "idle" =>
        /\ SetItemAsClaimed(sx.scenes)
        /\ SetItemAsClaimed(sx.inner)
        /\ \A k, l \in 1..Len(sx.inner) : sx.inner[k][1] = sx.inner[l][1] => k = l
        /\ (sx.pc = "raised" /\ sx.error = "KeyExistsException" /\ sx.j = 0) =>
              sx.scenes = sx.mark.scenes

\* the second of two images with the same stem was refused, the first
\* staying registered
C15_Witness ==
    /\ sx.pc = "raised" /\ sx.error = "KeyExistsException"
    /\ sx.scenes = << <<"a", "cloudmetrics/a.nc">> >>
    /\ sx.sources[2].path = "data/a.png"

\* C16: within one extraction every scene file is written at most once.
C16_SceneFileWrittenOnce ==
    sx.pc # "idle" => \A q \in DOMAIN sx.writes : sx.writes[q] <= 1

\* an extraction over two sources that returned having written three files
C16_Witness ==
    /\ sx.pc = "returned"
    /\ Cardinality(DOMAIN sx.writes) = 3

\* the scene IDs the specification gives for an array source
ClaimedSceneIds(src) ==
    IF "scene_id" \in src.coords THEN src.ids
    ELSE [k \in 1..Len(src.times) |-> PathStem(src.path) \o "__" \o TimeStr(src.times[k])]

IsPrefix(q, r) == Len(q) <= Len(r) /\ q = SubSeq(r, 1, Len(q))

\* C17: the scenes discovered in an array source are those of its scene_id
\* coordinate if it has one, else those of its time coordinate with the ID
\* <file stem>__<time as %Y%d%m%H%M>; a source with neither makes the
\* extraction fail when it is reached, with no scene discovered in it, no
\* scene registered and no file written for it.
C17_ArraySourceScenes ==
    sx.pc # "idle" =>
        \A n \in 1..Len(sx.sources) :
            LET src == sx.sources[n]
            IN  PathSuffix(src.path) \in NETCDF_SUFFIXES =>
                    IF src.coords = {}
                    THEN /\ FoundIn(n) = <<>>
                         /\ sx.i >= n => (sx.i = n /\ sx.j = 0 /\ sx.pc # "returned")
                         /\ (sx.i = n /\ sx.pc = "raised") =>
                               /\ sx.error = "NotImplementedError: coordinates"
                               /\ sx.scenes = sx.mark.scenes
                               /\ fs = sx.mark.files
                    ELSE /\ IsPrefix(FoundIn(n), ClaimedSceneIds(src))
                         /\ sx.i > n => FoundIn(n) = ClaimedSceneIds(src)
                         /\ (src.path = "t.nc" /\ sx.i > n) =>
                               FoundIn(n) = <<"t__202001031230", "t__202131120905">>

\* an extraction that took the scenes of a file with both coordinates from
\* scene_id and then failed on a file with neither coordinate
C17_Witness ==
    /\ sx.pc = "raised" /\ sx.error = "NotImplementedError: coordinates"
    /\ Len(sx.sources) = 2
    /\ sx.sources[1].coords = {"scene_id", "time"}
    /\ FoundIn(1) = <<"a", "c">>
    /\ Len(sx.scenes) = 2

\* C19: a metric node run on a single field that is not boolean and whose
\* minimum is not 0.0 or whose maximum is not 1.0 raised an error whose
\* message holds the field's name and its range (for the values {0.0, 0.5},
\* "=[0.0:0.5]") and wrote no output; run on a boolean field, or on a field
\* with minimum 0.0 and maximum 1.0, it computed the metric on the field
\* cast to boolean and wrote its output.
C19_MetricInputValidated ==
    (steprun.pc = "done" /\ steprun.upstream.single) =>
        LET da == steprun.upstream
            out == Output(steprun.task).v
        IN  IF da.dtype # "bool" /\ (SetMin(da.vals) # 0 \/ SetMax(da.vals) # 10)
            THEN /\ ~steprun.result.ok
                 /\ Contains(steprun.result.msg, da.name)
                 /\ Contains(steprun.result.msg,
                             "=[" \o FormatItem(SetMin(da.vals), da.dtype) \o ":"
                                  \o FormatItem(SetMax(da.vals), da.dtype) \o "]")
                 /\ (da.dtype = "float" /\ da.vals = {0, 5}) =>
                       Contains(steprun.result.msg, da.name \o "=[0.0:0.5]")
                 /\ DOMAIN fs = {UpstreamPath}
            ELSE /\ steprun.result.ok
                 /\ steprun.cloudmask.ok
                 /\ steprun.cloudmask.v.dtype = "bool"
                 /\ steprun.cloudmask.v.vals = {IF v = 0 THEN 0 ELSE 10 : v \in da.vals}
                 /\ out \in DOMAIN fs /\ fs[out] = steprun.result.v
                 /\ fs[UpstreamPath] = da

\* a metric node that was run on a float field with the values 0.0 and 0.5
C19_Witness ==
    /\ steprun.pc = "done"
    /\ steprun.upstream.dtype = "float" /\ steprun.upstream.vals = {0, 5}
    /\ ~steprun.result.ok

\* C20: a metric node run on a file that is not a single field raised an
\* error whose message holds the names of the variables of the file, and
\* wrote no output.
C20_DatasetErrorNamesVariables ==
    (steprun.pc = "done" /\ ~steprun.upstream.single) =>
        /\ ~steprun.result.ok
        /\ \A k \in 1..Len(steprun.upstream.data_vars) :
              Contains(steprun.result.msg, steprun.upstream.data_vars[k])
        /\ DOMAIN fs = {UpstreamPath}

\* a metric node that was run on a file with two variables and raised
C20_Witness ==
    /\ steprun.pc = "done"
    /\ ~steprun.upstream.single /\ Len(steprun.upstream.data_vars) = 2
    /\ ~steprun.result.ok
    /\ DOMAIN fs = {UpstreamPath}

\* the tile node of the chain has been run
TileRan == steprun.pc \in {"tiled", "failed", "measured"} /\ steprun.chain[1] = "tile"

\* the tile node of the chain has written its output
TileWritten == TileRan /\ steprun.tiled.ok

TileArg(name) == DictGet(steprun.tile.parameters, name)

\* window size, stride and offset as the claims word them
ClaimedSize == TileArg("window_size").n
ClaimedStride ==
    IF TileArg("window_stride") = PyNone THEN ClaimedSize ELSE TileArg("window_stride").n
ClaimedOffset ==
    IF TileArg("window_offset") = PyStr("stride_center")
    THEN (ClaimedStride - ClaimedSize) \div 2 ELSE 0

\* the starts o, o + t, o + 2t, .. of the windows that fit an axis of length L
ClaimedStarts(L, s, t, o) ==
    {p \in 0..(L - 1) : p >= o /\ (p - o) % t = 0 /\ p + s <= L}

\* the k-th smallest element of a set of numbers
Rank(S, k) == CHOOSE p \in S : Cardinality({x \in S : x < p}) = k - 1

\* C21: a metric node run on the output of a tile node called the metric
\* once per window, each call on the cells of one window, and its output
\* holds exactly one value per (x-stride, y-stride) position, the metric of
\* the window at that position; a metric node run on an untiled mask called
\* the metric once, on the whole field.
C21_MetricPerWindow ==
    steprun.pc = "measured" =>
        LET out == fs[Output(steprun.metric).v]
            metric == DictGet(steprun.metric.parameters, "metric").s
        IN  IF steprun.chain[1] = "tile"
            THEN LET da == fs[Output(steprun.tile).v]
                     positions == (1..da.shape[1]) \X (1..da.shape[2])
                 IN  /\ da.tiled
                     /\ Len(out.calls) = Cardinality(positions)
                     /\ \A w \in positions :
                           Cardinality({m \in 1..Len(out.calls) :
                                           out.calls[m] = da.windows[w]})
                             = Cardinality({v \in positions :
                                               da.windows[v] = da.windows[w]})
                     /\ DOMAIN out.results = positions
                     /\ \A w \in positions :
                           out.results[w] = [metric |-> metric, of |-> da.windows[w]]
                     /\ out.shape = <<da.shape[1], da.shape[2]>>
            ELSE /\ ~steprun.upstream.tiled
                 /\ out.calls = <<steprun.upstream.values>>
                 /\ out.results = [metric |-> metric, of |-> steprun.upstream.values]
                 /\ out.shape = <<>>

\* a metric node that was run on a tiling of four windows or more, no two
\* rows of which hold the same cells
C21_Witness ==
    /\ steprun.pc = "measured"
    /\ steprun.chain[1] = "tile"
    /\ Len(fs[Output(steprun.metric).v].calls) >= 4
    /\ fs[Output(steprun.metric).v].results[<<1, 1>>]
          # fs[Output(steprun.metric).v].results[<<2, 1>>]

\* C22: for a tile node run on a 2-D field: with window_stride=None the
\* windows are those of window_stride=window_size; with window_offset=None
\* the first window starts at 0; with window_offset='stride_center' and
\* window_stride >= window_size the first window starts at
\* (window_stride - window_size) // 2, and with window_stride < window_size
\* the node fails with an Exception; with any other window_offset it fails
\* with NotImplementedError.
C22_TileParameters ==
    (TileRan /\ Len(steprun.upstream.shape) = 2) =>
        LET wo == TileArg("window_offset")
            r == steprun.tiled
            da == steprun.upstream
            xs == ClaimedStarts(da.shape[1], ClaimedSize, ClaimedStride, ClaimedOffset)
            ys == ClaimedStarts(da.shape[2], ClaimedSize, ClaimedStride, ClaimedOffset)
            windowed ==
                /\ r.ok \/ r.v = "ValueError"
                /\ r.ok <=> (ClaimedSize <= da.shape[1] /\ ClaimedSize <= da.shape[2])
                /\ r.ok =>
                      /\ r.v.x_stride = [k \in 1..Cardinality(xs) |-> da.xc[Rank(xs, k) + 1]]
                      /\ r.v.y_stride = [k \in 1..Cardinality(ys) |-> da.yc[Rank(ys, k) + 1]]
                      /\ xs # {} => r.v.x_stride[1] = da.xc[ClaimedOffset + 1]
                      /\ Cardinality(xs) > 1 =>
                            r.v.x_stride[2] = da.xc[ClaimedOffset + ClaimedStride + 1]
        IN  CASE wo = PyNone -> ClaimedOffset = 0 /\ windowed
              [] wo = PyStr("stride_center") ->
                    IF ClaimedStride >= ClaimedSize THEN windowed
                    ELSE ~r.ok /\ r.v = "Exception" /\ DOMAIN fs = {UpstreamPath}
              [] OTHER -> ~r.ok /\ r.v = "NotImplementedError" /\ DOMAIN fs = {UpstreamPath}

\* a tile node that was run with window_size=4, window_stride=8 and
\* window_offset='stride_center' on a field of 8 by 8: one window, at 2
C22_Witness ==
    /\ TileWritten
    /\ steprun.upstream.shape = <<8, 8>>
    /\ steprun.upstream.xc[1] = 0
    /\ TileArg("window_size") = PyInt(4)
    /\ TileArg("window_stride") = PyInt(8)
    /\ TileArg("window_offset") = PyStr("stride_center")
    /\ steprun.tiled.v.x_stride = <<2>>

\* C23: the output of a tile node run on a 2-D field with window size s,
\* stride t and offset o holds, along each axis of length L, exactly the
\* windows that start at o, o + t, o + 2t, .. with start + s <= L, in that
\* order; window (k, l) holds the s by s cells of the field from its start,
\* and the stride coordinate of a window is the field's coordinate at the
\* start (field of 8 by 8, s = 4, t = 4, o = 0: 2 by 2 windows of 4 by 4,
\* stride coordinates [0, 4]).
C23_TileWindows ==
    TileWritten =>
        LET da == steprun.upstream
            tiled == fs[Output(steprun.tile).v]
            s == ClaimedSize
            xs == ClaimedStarts(da.shape[1], s, ClaimedStride, ClaimedOffset)
            ys == ClaimedStarts(da.shape[2], s, ClaimedStride, ClaimedOffset)
        IN  /\ Len(da.shape) = 2
            /\ tiled.shape = <<Cardinality(xs), Cardinality(ys), s, s>>
            /\ DOMAIN tiled.windows = (1..Cardinality(xs)) \X (1..Cardinality(ys))
            /\ \A w \in DOMAIN tiled.windows :
                  /\ DOMAIN tiled.windows[w] = (0..(s - 1)) \X (0..(s - 1))
                  /\ \A c \in DOMAIN tiled.windows[w] :
                        tiled.windows[w][c]
                          = da.values[<<Rank(xs, w[1]) + c[1], Rank(ys, w[2]) + c[2]>>]
            /\ tiled.x_stride = [k \in 1..Cardinality(xs) |-> da.xc[Rank(xs, k) + 1]]
            /\ tiled.y_stride = [k \in 1..Cardinality(ys) |-> da.yc[Rank(ys, k) + 1]]
            /\ (da.shape = <<8, 8>> /\ da.xc[1] = 0 /\ s = 4 /\ ClaimedStride = 4
                  /\ ClaimedOffset = 0) =>
                  /\ tiled.shape = <<2, 2, 4, 4>>
                  /\ tiled.x_stride = <<0, 4>> /\ tiled.y_stride = <<0, 4>>

\* a tile node that was run with window_size=4, window_stride=4 and
\* window_offset=None on a field of 8 by 8 distinct numbers
C23_Witness ==
    /\ TileWritten
    /\ steprun.upstream.shape = <<8, 8>>
    /\ steprun.upstream.xc[1] = 0
    /\ steprun.upstream.dtype = "int8"
    /\ TileArg("window_size") = PyInt(4)
    /\ TileArg("window_stride") = PyInt(4)
    /\ TileArg("window_offset") = PyNone
    /\ fs[Output(steprun.tile).v].shape = <<2, 2, 4, 4>>

\* the task node execute() builds from a step for the scene file of a source
NodeOf(step, scene_file) ==
    PipelineStep(step.kind, SourceFile(scene_file), step.fn, step.parameters, FALSE)

\* C24: a tile step added by tile(window_size) alone holds window_stride=None
\* and window_offset=None in its parameters, and the identifier and the
\* output path of a task node built from it name window_offset=None.
C24_TileDefaultOffsetNone ==
    \A i \in 1..Len(calls) :
        (calls[i].op = "tile" /\ Len(calls[i].args) = 1) =>
            LET step == calls[i].step
                n == NodeOf(step, "cloudmetrics/s1.nc")
                id == "tile__window_size=" \o Format(DictGet(calls[i].args, "window_size"))
                        \o "__window_stride=None__window_offset=None"
            IN  /\ DictGet(step.parameters, "window_stride") = PyNone
                /\ DictGet(step.parameters, "window_offset") = PyNone
                /\ Identifier(n) = Ok(id)
                /\ Output(n) = Ok("cloudmetrics/" \o id \o "/s1.nc")

\* tile(window_size) was called without window_stride and window_offset
C24_Witness ==
    \E i \in 1..Len(calls) :
        /\ calls[i].op = "tile" /\ Len(calls[i].args) = 1
        /\ ~calls[i].raised
        /\ DictGet(calls[i].step.parameters, "window_offset") = PyStr("stride_center")

\* C25: the Merged Result of an execute() that returned holds one variable
\* per distinct name among the outputs of the frontier; the variable of a
\* name holds, in the order of the frontier, the outputs of that name, one
\* entry each; a result with one variable is a single named array with one
\* entry per output of the frontier, a result with several is the container.
C25_MergedByName ==
    \A i \in 1..Len(runs) :
        runs[i].outcome = "returned" =>
            LET r == runs[i]
                outs == [k \in 1..Len(r.tasks) |-> r.fs_end[Output(r.tasks[k]).v]]
                names == {outs[k].name : k \in 1..Len(outs)}
                of(name) == {k \in 1..Len(outs) : outs[k].name = name}
                vs == r.result.vars
            IN  /\ {vs[k].name : k \in 1..Len(vs)} = names
                /\ Len(vs) = Cardinality(names)
                /\ \A k \in 1..Len(vs) :
                      /\ Len(vs[k].entries) = Cardinality(of(vs[k].name))
                      /\ \A e \in 1..Len(vs[k].entries) :
                            vs[k].entries[e] = outs[Rank(of(vs[k].name), e)]
                /\ r.result.single <=> Cardinality(names) = 1
                /\ r.result.single => Len(vs[1].entries) = Len(r.tasks)

\* an execute() returned a container of two variables, each with an entry
\* per scene
C25_Witness ==
    \E i \in 1..Len(runs) :
        /\ runs[i].outcome = "returned"
        /\ ~runs[i].result.single
        /\ Len(runs[i].result.vars) = 2
        /\ Len(runs[i].result.vars[1].entries) >= 1

\* a node the pipeline has no step function for
Unimplemented(t) ==
    /\ IsNode(t)
    /\ \/ t.kind \notin {"mask", "tile", "metric"}
       \/ t.kind = "mask" /\ t.fn.t = "str"

\* the output of the parent of t existed when run r ended
ParentOutputExists(r, t) ==
    Output(t.parent).ok /\ Output(t.parent).v \in DOMAIN r.fs_end

\* node t entered run() once in run r, and run() raised NotImplementedError
FailedNotImplemented(r, t) ==
    /\ r.started[t] = 1
    /\ r.final[t] = "FAILED"
    /\ StepFunction(t, Output(t.parent), r.fs_end) = Raise("NotImplementedError")

\* C26: in an execute() that came to schedule its nodes, a node whose kind
\* is not mask, tile or metric, and a mask node whose transform is a string,
\* failed with NotImplementedError once the output of its parent existed;
\* no output of the node was written and execute() raised, without a
\* Merged Result.
C26_UnimplementedRaises ==
    \A i \in 1..Len(runs) :
        \A t \in DOMAIN runs[i].sched :
            (Unimplemented(t) /\ ParentOutputExists(runs[i], t)) =>
                /\ FailedNotImplemented(runs[i], t)
                /\ ~(Output(t).ok /\ Output(t).v \in DOMAIN runs[i].fs_end)
                /\ runs[i].outcome = "raised"
                /\ runs[i].result = NoResult

\* an execute() of a pipeline whose mask step has a string for its transform
\* ended, and one of a pipeline with a step of unknown kind ended
C26_Witness ==
    \E i \in 1..Len(runs) :
        \E t \in DOMAIN runs[i].sched :
            /\ Unimplemented(t) /\ t.kind = "mask"
            /\ ParentOutputExists(runs[i], t)
            /\ runs[i].outcome = "raised"

\* C27: an execute(debug=True, parallel_tasks=N) with N other than 1 never
\* comes to run its build; it raised an error, entered the run() of no node,
\* called no merge and returned no Merged Result.
C27_DebugOnlySerial ==
    \A i \in 1..Len(calls) :
        (calls[i].debug /\ calls[i].parallel_tasks # 1) =>
            /\ i > Len(runs) => pc # "running"
            /\ i <= Len(runs) =>
                  /\ runs[i].outcome = "raised"
                  /\ runs[i].started = <<>>
                  /\ runs[i].tasks = <<>>
                  /\ ~runs[i].merged
                  /\ runs[i].result = NoResult

\* an execute(debug=True, parallel_tasks=2) over extracted scenes raised
C27_Witness ==
    \E i \in 1..Len(runs) :
        /\ calls[i].debug /\ calls[i].parallel_tasks = 2
        /\ runs[i].outcome = "raised"
        /\ runs[i].error = "Debugging"
        /\ DOMAIN runs[i].fs1 # {}

\* C28: an execute() of a pipeline without a source file, whose extraction
\* gives no scene, raised 'No scenes found'; it built no node, entered no
\* run(), called no merge and returned no Merged Result.
C28_NoScenesRaises ==
    /\ Len(source_files) = 0 => pc # "running"
    /\ \A i \in 1..Len(runs) :
          Len(source_files) = 0 =>
              /\ runs[i].outcome = "raised"
              /\ runs[i].error = "No scenes found"
              /\ runs[i].tasks = <<>>
              /\ runs[i].started = <<>>
              /\ ~runs[i].merged
              /\ runs[i].result = NoResult

\* an execute() of a pipeline with steps and without a source file raised
C28_Witness ==
    /\ Len(source_files) = 0
    /\ Len(steps) > 0
    /\ Len(runs) > 0
    /\ runs[1].outcome = "raised"

\* C29: in an execute(clean=True) that came to schedule its nodes, no node
\* was found complete from an output written before the call, and if the
\* call returned, every node of the pipeline entered run() in it.
C29_CleanRecomputes ==
    \A i \in 1..Len(runs) :
        calls[i].clean =>
            \A t \in DOMAIN runs[i].sched :
                IsNode(t) =>
                    /\ runs[i].sched[t] # "DONE"
                    /\ runs[i].outcome = "returned" => runs[i].started[t] = 1

\* a second execute(), with clean=True, found a node complete from the
\* output the first had written next to sources in another directory
C29_Witness ==
    /\ Len(runs) = 2
    /\ calls[2].clean
    /\ source_files = SourcesIn("data")
    /\ \E t \in DOMAIN runs[2].sched :
          /\ IsNode(t)
          /\ runs[2].sched[t] = "DONE"
          /\ Output(t).v \in DOMAIN runs[1].fs_end

\* C30: when a call of modis_modaps_pipeline has placed orders and stored
\* their ids, any later call with the same arguments and with credentials,
\* in the same or in a new process, resolved the same data path, found the
\* stored ids, placed no order and checked the status of the stored orders.
C30_OrdersFoundAgain ==
    \A i \in 1..Len(modaps.calls) : \A j \in (i + 1)..Len(modaps.calls) :
        LET a == modaps.calls[i]
            b == modaps.calls[j]
        IN  (/\ a.placed # <<>>
             /\ b.q = a.q /\ b.data_path_arg = a.data_path_arg
             /\ b.credentials) =>
                /\ b.data_path = a.data_path
                /\ b.found
                /\ b.placed = <<>>
                /\ b.checked = a.placed

\* a call placed orders, and a call with the same arguments in the next
\* process, with another hash seed, placed orders again
C30_Witness ==
    \E i \in 1..Len(modaps.calls) : \E j \in (i + 1)..Len(modaps.calls) :
        /\ modaps.calls[i].placed # <<>>
        /\ modaps.calls[j].q = modaps.calls[i].q
        /\ modaps.calls[j].data_path_arg = modaps.calls[i].data_path_arg
        /\ modaps.calls[j].process = modaps.calls[i].process + 1
        /\ modaps.calls[j].placed # <<>>

\* what the identifier rule reads of a step: the kind, the parameter names
\* with the text of their values, and the transform name
StepText(n) ==
    <<n.kind,
      [i \in 1..Len(n.parameters) |-> <<n.parameters[i][1], Format(n.parameters[i][2])>>],
      n.fn.t, n.fn.name>>

\* the step of a node: kind, parameters and transform
StepOf(n) == <<n.kind, n.parameters, n.fn>>

\* no name or value text of the step holds the separator "__"
NoSeparatorIn(n) ==
    /\ ~Contains(n.fn.name, "__")
    /\ \A i \in 1..Len(n.parameters) :
          /\ ~Contains(n.parameters[i][1], "__")
          /\ ~Contains(Format(n.parameters[i][2]), "__")

\* two nodes over parents with one output, both with an identifier
Siblings(a, b) ==
    /\ a # b
    /\ Output(a.parent).ok /\ Output(a.parent) = Output(b.parent)
    /\ ident[a].id.ok /\ ident[b].id.ok

AllNodes ==
    GraphNodes(cur.tasks) \cup UNION {GraphNodes(runs[i].tasks) : i \in 1..Len(runs)}

\* C33: at every moment, in and between execute() calls that returned or
\* raised, with one or several workers and with or without clean, a task
\* node whose output file exists has the output files of all its ancestors
\* and its scene file.
C33_OutputsHaveAncestors ==
    \A t \in AllNodes :
        (Output(t).ok /\ Output(t).v \in DOMAIN fs) =>
            /\ \A a \in Ancestors(t) : Output(a).ok /\ Output(a).v \in DOMAIN fs
            /\ Output(RootOf(t)).ok /\ Output(RootOf(t)).v \in DOMAIN fs

\* after an execute() call that raised, a build with two workers has run a
\* node of its second step, whose output exists, while another node of the
\* build has not run
C33_Witness ==
    /\ pc = "running" /\ cur.parallel_tasks = 2
    /\ Len(runs) = 1 /\ runs[1].outcome = "raised"
    /\ \E t \in DOMAIN status :
          /\ IsNode(t) /\ IsNode(t.parent) /\ started[t] = 1
          /\ Output(t).ok /\ Output(t).v \in DOMAIN fs
    /\ \E u \in DOMAIN status : IsNode(u) /\ status[u] = "PENDING"

\* the step function of node t raised in the i-th execute(): run() was
\* entered and the node failed
StepFunctionFailed(i, t) ==
    /\ t \in DOMAIN runs[i].final
    /\ IsNode(t)
    /\ runs[i].final[t] = "FAILED" /\ runs[i].started[t] = 1

\* the i-th execute() got as far as the build of its task nodes
Built(i) == Len(runs[i].tasks) > 0

\* the nodes of the i-th execute() that stand for node t: same step over
\* the same parent output (the debug flag of the call may differ)
SameNodeIn(i, t) ==
    {u \in DOMAIN runs[i].sched : IsNode(u) /\ Output(u) = Output(t) /\ SameStep(u, t)}

\* C34: a node whose step function raised in an execute() has no file at its
\* output when that call ends, and the next execute() that builds its nodes
\* does not take the node as done: it schedules it as pending and enters its
\* run() again.
C34_FailedNotCached ==
    \A i \in 1..Len(runs) :
        \A t \in DOMAIN runs[i].final :
            StepFunctionFailed(i, t) =>
                /\ Output(t).v \notin DOMAIN runs[i].fs_end
                /\ (i + 1 <= Len(runs) /\ Built(i + 1)) =>
                      /\ SameNodeIn(i + 1, t) # {}
                      /\ \A u \in SameNodeIn(i + 1, t) :
                            /\ runs[i + 1].sched[u] = "PENDING"
                            /\ runs[i + 1].started[u] = 1

\* a node whose step function raised in the first execute() and whose run()
\* was entered again in the second
C34_Witness ==
    /\ Len(runs) = 2
    /\ \E t \in DOMAIN runs[1].final :
          /\ StepFunctionFailed(1, t)
          /\ Built(2)
          /\ \E u \in SameNodeIn(2, t) : u.debug # t.debug /\ runs[2].started[u] = 1

\* the scene ids of the frontier of the i-th execute()
FrontierScenes(i) ==
    {PathStem(RootOf(runs[i].tasks[k]).filepath) : k \in 1..Len(runs[i].tasks)}

\* C35: in every execute() that called the Merger, no two entries of the
\* list of outputs are the same path, and in the Merged Result no variable
\* holds the same output twice or more entries than there are scenes.
C35_EachSceneOnce ==
    \A i \in 1..Len(runs) :
        runs[i].merged =>
            LET r == runs[i]
            IN  /\ \A k, l \in 1..Len(r.tasks) :
                      k # l => Output(r.tasks[k]) # Output(r.tasks[l])
                /\ r.outcome = "returned" =>
                      \A v \in 1..Len(r.result.vars) :
                          LET entries == r.result.vars[v].entries
                          IN  /\ \A e, f \in 1..Len(entries) :
                                    e # f => entries[e] # entries[f]
                              /\ Len(entries) <= Cardinality(FrontierScenes(i))

\* an execute() of mask and compute_metrics(["iorg", "iorg"]) returned a
\* single variable that holds every scene twice
C35_Witness ==
    \E i \in 1..Len(runs) :
        /\ runs[i].outcome = "returned"
        /\ Len(runs[i].steps) = 2
        /\ runs[i].steps[2].kind = "metrics"
        /\ runs[i].steps[2].metrics = <<"iorg", "iorg">>
        /\ runs[i].result.single
        /\ Len(runs[i].result.vars[1].entries) = 2 * NumScenes

\* the steps are steps the builder operations accept: mask with a function,
\* tile, and compute_metrics with a list in which no name is missing
AcceptedByBuilder(stepseq) ==
    \A k \in 1..Len(stepseq) :
        \/ stepseq[k].kind = "mask" /\ stepseq[k].fn.t = "func"
        \/ stepseq[k].kind = "tile"
        \/ stepseq[k].kind = "metrics" /\ Len(MissingMetrics(stepseq[k].metrics)) = 0

\* the i-th execute() found scenes and was not refused before the build
ReachedBuild(i) ==
    /\ DOMAIN runs[i].fs1 # {}
    /\ runs[i].error \notin {"make_scenes", "No scenes found", "Debugging"}

\* C36: an execute() of steps the builder accepts that found at least one
\* scene and got to the build has a frontier of at least one task, in the
\* build and when the Merger is called.
C36_FrontierNonEmpty ==
    /\ (pc = "running" /\ AcceptedByBuilder(steps)) => Len(cur.tasks) > 0
    /\ \A i \in 1..Len(runs) :
          (ReachedBuild(i) /\ AcceptedByBuilder(runs[i].steps)) =>
              /\ Len(runs[i].tasks) > 0
              /\ runs[i].merged => runs[i].error # "ValueError"

\* an execute() of mask and compute_metrics([]) over two scenes built no
\* task, called the Merger with no output and raised from it
C36_Witness ==
    \E i \in 1..Len(runs) :
        /\ runs[i].steps = <<MaskStep, NoMetricsStep>>
        /\ ReachedBuild(i)
        /\ Len(runs[i].tasks) = 0
        /\ runs[i].merged /\ runs[i].outcome = "raised"

\* C37: a metric node run on a single field that is not boolean computed its
\* metric exactly when every value of the field is 0.0 or 1.0, and raised
\* the validation error, writing no output, when the field holds any other
\* value.
C37_OnlyZeroOneAccepted ==
    (steprun.pc = "done" /\ steprun.upstream.single /\ steprun.upstream.dtype # "bool") =>
        IF steprun.upstream.vals \subseteq {0, 10}
        THEN steprun.result.ok
        ELSE /\ ~steprun.result.ok
             /\ DOMAIN fs = {UpstreamPath}

\* a metric node run on a float field with the values 0.0, 0.5 and 1.0
\* computed the metric on the field cast to boolean and wrote its output
C37_Witness ==
    /\ steprun.pc = "done"
    /\ steprun.upstream.dtype = "float" /\ steprun.upstream.vals = {0, 5, 10}
    /\ steprun.result.ok
    /\ steprun.cloudmask.v.vals = {0, 10}
    /\ Output(steprun.task).v \in DOMAIN fs

\* a recorded order whose status is a processing status
StillProcessing == {k \in 1..Len(modaps.statuses) : modaps.statuses[k] \in ProcessingStatuses}

\* C31: modaps_pipeline returned a pipeline only when no order of the order
\* database had a processing status; when an order had one (and no status
\* was unknown) it raised MODAPSOrderProcessingException.
C31_ProcessingOrdersRaise ==
    modaps.pc = "orders" =>
        /\ modaps.outcome = "returned" => StillProcessing = {}
        /\ (/\ modaps.outcome # "running"
            /\ StillProcessing # {}
            /\ \A k \in 1..Len(modaps.statuses) :
                  modaps.statuses[k] \in ProcessingStatuses \cup {"Available", "Removed", "Canceled"})
              => modaps.outcome = "MODAPSOrderProcessingException"

\* modaps_pipeline returned although the order database holds an order the
\* server reports as New and another as Running
C31_Witness ==
    /\ modaps.pc = "orders"
    /\ modaps.outcome = "returned"
    /\ \E k, l \in 1..Len(modaps.statuses) :
          modaps.statuses[k] = "New" /\ modaps.statuses[l] = "Running"
    /\ modaps.processing_orders = <<>>

\* the days from a to b, both included
Days(a, b) == {d \in 1..(MaxDate + 7) : a <= d /\ d <= b}

\* the Monday of the ISO week of day d
WeekStart(d) == d - (IsoWeekday(d) - 1)

\* C39: for start_date <= end_date the intervals yielded are consecutive
\* (each starts the day after the one before ended), none is empty, each
\* lies within one ISO week, and together they hold every day from
\* start_date to end_date and no other.
C39_WeeklyIntervalsCover ==
    (modaps.pc = "intervals" /\ modaps.done /\ modaps.start_date <= modaps.end_date) =>
        LET y == modaps.yielded
        IN  /\ \A k \in 1..Len(y) :
                  /\ y[k][1] <= y[k][2]
                  /\ WeekStart(y[k][1]) = WeekStart(y[k][2])
            /\ \A k \in 1..(Len(y) - 1) : y[k + 1][1] = y[k][2] + 1
            /\ UNION {Days(y[k][1], y[k][2]) : k \in 1..Len(y)}
                  = Days(modaps.start_date, modaps.end_date)

\* the intervals of a range of more than a week that ends on a Monday
\* stop on the Sunday before it
C39_Witness ==
    /\ modaps.pc = "intervals" /\ modaps.done
    /\ modaps.end_date - modaps.start_date > 7
    /\ IsoWeekday(modaps.end_date) = 1
    /\ Len(modaps.yielded) = 2
    /\ modaps.yielded[2][2] = modaps.end_date - 1

\* the number of times path occurs in the list
Occurrences(q, path) == Cardinality({k \in 1..Len(q) : q[k] = path})

\* C38: the list download_MODIS_RGB_scenes returned holds, for every day
\* from start_date up to but not including end_date and every satellite,
\* the file path of that day and satellite exactly once, and it holds no
\* path of a day on or after end_date.
C38_OnePathPerDayAndSatellite ==
    (modaps.pc = "rgb" /\ modaps.returned) =>
        LET sats == {modaps.satellites[k] : k \in 1..Len(modaps.satellites)}
        IN  /\ \A d \in 1..(MaxDay + 2) : \A sat \in sats :
                  Occurrences(modaps.file_paths, RgbFilepath(d, sat))
                    = IF modaps.start_date <= d /\ d < modaps.end_date THEN 1 ELSE 0
            /\ Len(modaps.file_paths)
                  = Cardinality(sats)
                      * Cardinality({d \in 1..MaxDay : modaps.start_date <= d /\ d < modaps.end_date})

\* the call of the test, one day and the two satellites: the list returned
\* holds the first day for Terra and the end date for Aqua
C38_Witness ==
    /\ modaps.pc = "rgb" /\ modaps.returned
    /\ modaps.satellites = <<"Terra", "Aqua">>
    /\ modaps.start_date = 1 /\ modaps.end_date = 2
    /\ modaps.file_paths = <<RgbFilepath(1, "Terra"), RgbFilepath(2, "Aqua")>>

====
